---------------------------- MODULE Spec2Model ----------------------------
(* Commission & ledger engine of CoLink Commerce: rule resolution, the     *)
(* commission split, the ledger entry life cycle and payout settlement.    *)
(*                                                                         *)
(* Money is a Prisma.Decimal in the source.  Every amount of the model is  *)
(* an integer number of 1/100000 currency units, so that a subtotal in     *)
(* cents times a whole percentage (/100) or times a per-mille rate         *)
(* (/1000) is exact, as the decimal arithmetic of the source is.           *)
EXTENDS Integers, Sequences, FiniteSets, TLC

VARIABLES
    rules,      \* the CommissionRule table
    now,        \* the clock read by new Date()
    call,       \* the arguments of the call under way (pure-function specifications)
    ret,        \* what the last completed call returned or threw
    ledger,     \* the LedgerEntry table, a sequence; an entry's id is its index
    payouts,    \* the Payout table, a sequence; a payout's id is its index
    inflight    \* the service calls suspended at an await, by slot

vars == <<rules, now, call, ret, ledger, payouts, inflight>>

-----------------------------------------------------------------------------
(* Bounds of the model. *)

MaxTime == 3
MaxCents == 2
MaxPercent == 1
MaxClock == 1
MaxSplits == 1
MaxProcessSplits == 2
MaxSeedItems == 2
MaxPayouts == 2
MaxConcurrent == 2

(* Nullable columns: <<>> is null, <<v>> is the value v. *)
Null == <<>>
Some(v) == <<v>>
IsSet(x) == x # <<>>
Val(x) == x[1]

(* An amount of c cents in model units. *)
Money(c) == c * 1000
(* paymentFeePercent = 0.029, as a per-mille rate. *)
DefaultPaymentFeePerMille == 29

-----------------------------------------------------------------------------
(* Rule resolution: CommissionService.findApplicableCommissionRule *)

NoId == "none"
Campaigns == {"k1", "k2"}
ProductOf(sku) == IF sku = "s1" THEN "p1" ELSE "p2"

Rule(id, org, type, ref, active, from, to, pf, cp, minC, maxC) ==
    [id |-> id, organizationId |-> org, type |-> type,
     campaignId |-> IF type = "CAMPAIGN" THEN ref ELSE NoId,
     skuId |-> IF type = "SKU" THEN ref ELSE NoId,
     productId |-> IF type = "PRODUCT" THEN ref ELSE NoId,
     isActive |-> active, startDate |-> from, endDate |-> to,
     platformFeePercent |-> pf, creatorPercent |-> cp,
     minCommission |-> minC, maxCommission |-> maxC]

(* Mutant: the where-clause has no bound on endDate. *)
InForce_OpenEnded(r, org, type, t) ==
    /\ r.organizationId = org
    /\ r.type = type
    /\ r.isActive
    /\ r.startDate <= t

(* The shared part of the four where-clauses: organization, type, active, *)
(* startDate <= new Date() and endDate >= new Date().                     *)
InForce(r, org, type, t) ==
    /\ r.organizationId = org
    /\ r.type = type
    /\ r.isActive
    /\ r.startDate <= t
    /\ r.endDate >= t

CampaignMatches(rs, org, campaignId, t) ==
    {r \in rs : InForce(r, org, "CAMPAIGN", t) /\ r.campaignId = campaignId}

SkuMatches(rs, org, skuId, t) ==
    {r \in rs : InForce(r, org, "SKU", t) /\ r.skuId = skuId}

ProductMatches(rs, org, productId, t) ==
    {r \in rs : InForce(r, org, "PRODUCT", t) /\ r.productId = productId}

DefaultMatches(rs, org, t) ==
    {r \in rs : InForce(r, org, "DEFAULT", t)}

Found(rs) == {[kind |-> "ok", rule |-> r] : r \in rs}
NotFoundError == [kind |-> "NotFound", code |-> "COMMISSION_RULE_NOT_FOUND"]

(* Mutant: the DEFAULT tier is tried before the others. *)
findApplicableCommissionRule_DefaultFirst(rs, item, campaignId, t) ==
    LET org == item.organizationId
        camp == IF campaignId # NoId
                THEN CampaignMatches(rs, org, campaignId, t) ELSE {}
        sku == SkuMatches(rs, org, item.skuId, t)
        prod == ProductMatches(rs, org, item.productId, t)
        def == DefaultMatches(rs, org, t)
    IN  IF def # {} THEN Found(def)
        ELSE IF camp # {} THEN Found(camp)
        ELSE IF sku # {} THEN Found(sku)
        ELSE IF prod # {} THEN Found(prod)
        ELSE {NotFoundError}

(* The outcomes of findApplicableCommissionRule: findFirst has no orderBy, *)
(* so any matching row of the first non-empty tier may be returned.        *)
findApplicableCommissionRule(rs, item, campaignId, t) ==
    LET org == item.organizationId
        camp == IF campaignId # NoId
                THEN CampaignMatches(rs, org, campaignId, t) ELSE {}
        sku == SkuMatches(rs, org, item.skuId, t)
        prod == ProductMatches(rs, org, item.productId, t)
        def == DefaultMatches(rs, org, t)
    IN  IF camp # {} THEN Found(camp)
        ELSE IF sku # {} THEN Found(sku)
        ELSE IF prod # {} THEN Found(prod)
        ELSE IF def # {} THEN Found(def)
        ELSE {NotFoundError}

-----------------------------------------------------------------------------
(* The split: CommissionService.calculateCommission *)

(* Mutant: a negative seller take is zeroed without recomputing the *)
(* creator commission.                                              *)
Split_NoRecompute(item, rule, feePerMille) ==
    LET subtotal == item.subtotal
        platformFee == (subtotal * rule.platformFeePercent) \div 100
        raw == (subtotal * rule.creatorPercent) \div 100
        floored == IF IsSet(rule.minCommission) /\ raw < Val(rule.minCommission)
                   THEN Val(rule.minCommission) ELSE raw
        capped == IF IsSet(rule.maxCommission) /\ floored > Val(rule.maxCommission)
                  THEN Val(rule.maxCommission) ELSE floored
        paymentFee == (subtotal * feePerMille) \div 1000
        sellerTake == subtotal - platformFee - capped - paymentFee
    IN  [kind |-> "ok", orderItemId |-> item.id, subtotal |-> subtotal,
         platformFee |-> platformFee, creatorCommission |-> capped,
         paymentFee |-> paymentFee,
         sellerTake |-> IF sellerTake < 0 THEN 0 ELSE sellerTake,
         currency |-> item.currency, appliedRuleId |-> rule.id,
         appliedRuleType |-> rule.type, warned |-> sellerTake < 0]

(* Mutant: the minimum commission of the rule is ignored. *)
Split_NoMinimum(item, rule, feePerMille) ==
    LET subtotal == item.subtotal
        platformFee == (subtotal * rule.platformFeePercent) \div 100
        raw == (subtotal * rule.creatorPercent) \div 100
        capped == IF IsSet(rule.maxCommission) /\ raw > Val(rule.maxCommission)
                  THEN Val(rule.maxCommission) ELSE raw
        paymentFee == (subtotal * feePerMille) \div 1000
        sellerTake == subtotal - platformFee - capped - paymentFee
        adjusted == subtotal - platformFee - paymentFee
        creatorCommission ==
            IF sellerTake < 0
            THEN (IF adjusted < 0 THEN 0 ELSE adjusted)
            ELSE capped
    IN  [kind |-> "ok", orderItemId |-> item.id, subtotal |-> subtotal,
         platformFee |-> platformFee, creatorCommission |-> creatorCommission,
         paymentFee |-> paymentFee,
         sellerTake |-> IF sellerTake < 0 THEN 0 ELSE sellerTake,
         currency |-> item.currency, appliedRuleId |-> rule.id,
         appliedRuleType |-> rule.type, warned |-> sellerTake < 0]

(* Mutant: on a negative seller take the creator commission is dropped *)
(* to zero instead of being reduced to what is left.                   *)
Split_DropCommission(item, rule, feePerMille) ==
    LET subtotal == item.subtotal
        platformFee == (subtotal * rule.platformFeePercent) \div 100
        raw == (subtotal * rule.creatorPercent) \div 100
        floored == IF IsSet(rule.minCommission) /\ raw < Val(rule.minCommission)
                   THEN Val(rule.minCommission) ELSE raw
        capped == IF IsSet(rule.maxCommission) /\ floored > Val(rule.maxCommission)
                  THEN Val(rule.maxCommission) ELSE floored
        paymentFee == (subtotal * feePerMille) \div 1000
        sellerTake == subtotal - platformFee - capped - paymentFee
    IN  [kind |-> "ok", orderItemId |-> item.id, subtotal |-> subtotal,
         platformFee |-> platformFee,
         creatorCommission |-> IF sellerTake < 0 THEN 0 ELSE capped,
         paymentFee |-> paymentFee,
         sellerTake |-> IF sellerTake < 0 THEN 0 ELSE sellerTake,
         currency |-> item.currency, appliedRuleId |-> rule.id,
         appliedRuleType |-> rule.type, warned |-> sellerTake < 0]

(* Mutant: the maximum is applied before the minimum. *)
Split_MaxThenMin(item, rule, feePerMille) ==
    LET subtotal == item.subtotal
        platformFee == (subtotal * rule.platformFeePercent) \div 100
        raw == (subtotal * rule.creatorPercent) \div 100
        capped == IF IsSet(rule.maxCommission) /\ raw > Val(rule.maxCommission)
                  THEN Val(rule.maxCommission) ELSE raw
        floored == IF IsSet(rule.minCommission) /\ capped < Val(rule.minCommission)
                   THEN Val(rule.minCommission) ELSE capped
        paymentFee == (subtotal * feePerMille) \div 1000
        sellerTake == subtotal - platformFee - floored - paymentFee
        adjusted == subtotal - platformFee - paymentFee
        creatorCommission ==
            IF sellerTake < 0
            THEN (IF adjusted < 0 THEN 0 ELSE adjusted)
            ELSE floored
    IN  [kind |-> "ok", orderItemId |-> item.id, subtotal |-> subtotal,
         platformFee |-> platformFee, creatorCommission |-> creatorCommission,
         paymentFee |-> paymentFee,
         sellerTake |-> IF sellerTake < 0 THEN 0 ELSE sellerTake,
         currency |-> item.currency, appliedRuleId |-> rule.id,
         appliedRuleType |-> rule.type, warned |-> sellerTake < 0]

Split(item, rule, feePerMille) ==
    LET subtotal == item.subtotal
        platformFee == (subtotal * rule.platformFeePercent) \div 100
        raw == (subtotal * rule.creatorPercent) \div 100
        floored == IF IsSet(rule.minCommission) /\ raw < Val(rule.minCommission)
                   THEN Val(rule.minCommission) ELSE raw
        capped == IF IsSet(rule.maxCommission) /\ floored > Val(rule.maxCommission)
                  THEN Val(rule.maxCommission) ELSE floored
        paymentFee == (subtotal * feePerMille) \div 1000
        sellerTake == subtotal - platformFee - capped - paymentFee
        adjusted == subtotal - platformFee - paymentFee
        creatorCommission ==
            IF sellerTake < 0
            THEN (IF adjusted < 0 THEN 0 ELSE adjusted)
            ELSE capped
    IN  [kind |-> "ok",
         orderItemId |-> item.id,
         subtotal |-> subtotal,
         platformFee |-> platformFee,
         creatorCommission |-> creatorCommission,
         paymentFee |-> paymentFee,
         sellerTake |-> IF sellerTake < 0 THEN 0 ELSE sellerTake,
         currency |-> item.currency,
         appliedRuleId |-> rule.id,
         appliedRuleType |-> rule.type,
         warned |-> sellerTake < 0]

(* Mutant: without a rule the item is given a split of zero percent. *)
calculateCommission_ZeroSplit(rs, item, feePerMille, campaignId, t) ==
    {IF o.kind = "ok" THEN Split(item, o.rule, feePerMille)
     ELSE Split(item, Rule("none", item.organizationId, "DEFAULT", NoId, TRUE,
                           t, t, 0, 0, Null, Null), feePerMille) :
        o \in findApplicableCommissionRule(rs, item, campaignId, t)}

(* Mutant: the payment fee grows with the time of the call. *)
calculateCommission_TimedFee(rs, item, feePerMille, campaignId, t) ==
    {IF o.kind = "ok" THEN Split(item, o.rule, feePerMille + t) ELSE o :
        o \in findApplicableCommissionRule(rs, item, campaignId, t)}

(* The outcomes of calculateCommission: the resolver's error is logged and *)
(* rethrown unchanged.                                                     *)
calculateCommission(rs, item, feePerMille, campaignId, t) ==
    {IF o.kind = "ok" THEN Split(item, o.rule, feePerMille) ELSE o :
        o \in findApplicableCommissionRule(rs, item, campaignId, t)}

-----------------------------------------------------------------------------
(* The orders, items and campaigns handed over by the collaborators. *)

Item(id, orderId, org, sku, cents, cur) ==
    [id |-> id, orderId |-> orderId, organizationId |-> org, skuId |-> sku,
     productId |-> ProductOf(sku), subtotal |-> Money(cents), currency |-> cur]

Orders == {"o1", "o2"}
MissingOrder == "o9"
OrderRow(o) ==
    IF o = "o1"
    THEN [id |-> "o1", organizationId |-> "orgA", currency |-> "MYR"]
    ELSE [id |-> "o2", organizationId |-> "orgB", currency |-> "USD"]
OrderItems(o) ==
    IF o = "o1"
    THEN <<Item("i1", "o1", "orgA", "s1", 10000, "MYR"),
           Item("i2", "o1", "orgA", "s2", 1000, "MYR")>>
    ELSE <<Item("i3", "o2", "orgB", "s1", 1000, "USD")>>

Creators == {"u1", "u2"}
MissingCampaign == "k9"
CampaignCreator(k) == IF k = "k1" THEN "u1" ELSE "u2"
(* The creator the attribution collaborator resolved for an order. *)
OrderCreator(o) == IF o = "o1" THEN "u1" ELSE "u2"

-----------------------------------------------------------------------------
(* The ledger table and prisma.$transaction *)

Ids(led) == 1..Len(led)

(* A write of a transaction: the creation of a row, or the update of the *)
(* row with a given id, which throws when there is no such row.          *)
Create(row) == [kind |-> "create", row |-> row]
Update(id, data) == [kind |-> "update", id |-> id, data |-> data]

Throws(led, w) == w.kind = "update" /\ w.id \notin Ids(led)

ApplyWrite(led, w) ==
    IF w.kind = "create"
    THEN Append(led, w.row)
    ELSE [led EXCEPT ![w.id] = w.data @@ @]

RECURSIVE ApplyWrites(_, _, _)
ApplyWrites(led, writes, n) ==
    IF n = 0 THEN led
    ELSE ApplyWrite(ApplyWrites(led, writes, n - 1), writes[n])

(* The first write that fails: the one the database rejects (dbFailAt, *)
(* 0 for none), or an earlier update of a missing row.                 *)
FirstFailure(led, writes, dbFailAt) ==
    LET bad == {n \in 1..Len(writes) :
                    \/ n = dbFailAt
                    \/ Throws(ApplyWrites(led, writes, n - 1), writes[n])}
    IN  IF bad = {} THEN 0 ELSE CHOOSE n \in bad : \A m \in bad : n <= m

(* Mutant: the writes made before the failure are kept. *)
Transaction_Partial(led, writes, dbFailAt) ==
    IF FirstFailure(led, writes, dbFailAt) = 0
    THEN [ok |-> TRUE, ledger |-> ApplyWrites(led, writes, Len(writes))]
    ELSE [ok |-> FALSE,
          ledger |-> ApplyWrites(led, writes,
                                 FirstFailure(led, writes, dbFailAt) - 1)]

(* prisma.$transaction: every write is committed, or none is. *)
Transaction(led, writes, dbFailAt) ==
    IF FirstFailure(led, writes, dbFailAt) = 0
    THEN [ok |-> TRUE, ledger |-> ApplyWrites(led, writes, Len(writes))]
    ELSE [ok |-> FALSE, ledger |-> led]

(* new Date() is evaluated once per row while the writes are built: the *)
(* first k rows read t, the clock ticks, and the others read t + 1.     *)
Stamp(n, k, t) == IF n <= k THEN t ELSE t + 1
ClockAfter(len, k, t) == IF k < len THEN t + 1 ELSE t
CanStamp(len, k, t) == k \in 0..len /\ (k < len => t < MaxClock) /\ (len > 0 => k > 0)

RECURSIVE SortedIds(_)
SortedIds(S) ==
    IF S = {} THEN <<>>
    ELSE LET m == CHOOSE x \in S : \A y \in S : x <= y
         IN  <<m>> \o SortedIds(S \ {m})

Range(f) == {f[x] : x \in DOMAIN f}

-----------------------------------------------------------------------------
(* CommissionService.createLedgerEntries *)

BaseMetadata(calc, t) ==
    [calculationId |-> t, appliedRuleId |-> calc.appliedRuleId,
     appliedRuleType |-> calc.appliedRuleType]

CommissionMetadata(calc, creatorId, t) ==
    [calculationId |-> t, appliedRuleId |-> calc.appliedRuleId,
     appliedRuleType |-> calc.appliedRuleType, creatorId |-> creatorId]

Entry(id, calc, order, type, amount, meta, t) ==
    [id |-> id, organizationId |-> order.organizationId, orderId |-> order.id,
     orderItemId |-> calc.orderItemId, entryType |-> type, amount |-> amount,
     currency |-> calc.currency, status |-> "RESERVED", createdAt |-> t,
     clearedAt |-> Null, paidAt |-> Null, payoutId |-> Null, metadata |-> meta]

(* Mutant: the SALE entry records what is left to the seller. *)
SplitWrites_SaleNet(led, calc, order, creatorId, t) ==
    LET n == Len(led)
    IN  <<Create(Entry(n + 1, calc, order, "SALE", calc.sellerTake,
                       BaseMetadata(calc, t), t)),
          Create(Entry(n + 2, calc, order, "PLATFORM_FEE", calc.platformFee,
                       BaseMetadata(calc, t), t)),
          Create(Entry(n + 3, calc, order, "COMMISSION", calc.creatorCommission,
                       CommissionMetadata(calc, creatorId, t), t)),
          Create(Entry(n + 4, calc, order, "PAYMENT_FEE", calc.paymentFee,
                       BaseMetadata(calc, t), t))>>

SplitWrites(led, calc, order, creatorId, t) ==
    LET n == Len(led)
    IN  <<Create(Entry(n + 1, calc, order, "SALE", calc.subtotal,
                       BaseMetadata(calc, t), t)),
          Create(Entry(n + 2, calc, order, "PLATFORM_FEE", calc.platformFee,
                       BaseMetadata(calc, t), t)),
          Create(Entry(n + 3, calc, order, "COMMISSION", calc.creatorCommission,
                       CommissionMetadata(calc, creatorId, t), t)),
          Create(Entry(n + 4, calc, order, "PAYMENT_FEE", calc.paymentFee,
                       BaseMetadata(calc, t), t))>>

createLedgerEntries(led, calc, order, creatorId, t, dbFailAt) ==
    LET tx == Transaction(led, SplitWrites(led, calc, order, creatorId, t), dbFailAt)
    IN  IF tx.ok
        THEN [ledger |-> tx.ledger, kind |-> "ok",
              entries |-> (Len(led) + 1)..(Len(led) + 4)]
        ELSE [ledger |-> tx.ledger, kind |-> "Internal",
              code |-> "LEDGER_ENTRY_CREATION_FAILED",
              orderItemId |-> calc.orderItemId,
              details |-> [orderItemId |-> calc.orderItemId]]

-----------------------------------------------------------------------------
(* Specification of the resolver alone: any rule table, item, campaign id *)
(* and clock reading; one call of findApplicableCommissionRule.           *)

RuleUniverse ==
    {Rule("rc1", "orgA", "CAMPAIGN", "k1", TRUE, 1, 2, 5, 10, Null, Null),
     Rule("rc2", "orgA", "CAMPAIGN", "k2", TRUE, 0, MaxTime, 5, 20, Null, Null),
     Rule("rs1", "orgA", "SKU", "s1", TRUE, 0, MaxTime, 5, 15, Null, Null),
     Rule("rs2", "orgA", "SKU", "s2", FALSE, 0, MaxTime, 5, 15, Null, Null),
     Rule("rp1", "orgA", "PRODUCT", "p1", TRUE, 0, 1, 5, 12, Null, Null),
     Rule("rd1", "orgA", "DEFAULT", NoId, TRUE, 0, MaxTime, 5, 10, Null, Null),
     Rule("rd2", "orgA", "DEFAULT", NoId, TRUE, 2, MaxTime, 6, 11, Null, Null),
     Rule("rd3", "orgB", "DEFAULT", NoId, TRUE, 0, MaxTime, 5, 10, Null, Null)}

ResolveItems ==
    {Item("i1", "o1", "orgA", "s1", 10000, "MYR"),
     Item("i2", "o1", "orgA", "s2", 1000, "MYR")}

NoReturn == [op |-> "none", kind |-> "pending"]

Idle == [op |-> "idle"]

(* The tables the pure-function specifications leave untouched. *)
NoLedger ==
    /\ ledger = <<>>
    /\ payouts = <<>>
    /\ inflight = [s \in 1..MaxConcurrent |-> Idle]

InitResolve ==
    /\ NoLedger
    /\ rules \in SUBSET RuleUniverse
    /\ now \in 0..MaxTime
    /\ call \in [op : {"resolve"}, item : ResolveItems,
                 campaignId : Campaigns \cup {NoId}]
    /\ ret = NoReturn

Resolve ==
    /\ call.op = "resolve"
    /\ ret = NoReturn
    /\ ret' \in findApplicableCommissionRule(rules, call.item, call.campaignId, now)
    /\ UNCHANGED <<rules, now, call, ledger, payouts, inflight>>

NextResolve == Resolve

SpecResolve == InitResolve /\ [][NextResolve]_vars

-----------------------------------------------------------------------------
(* Specification of the calculator alone: one in-force DEFAULT rule with  *)
(* any percentages and caps, any subtotal and payment-fee rate; one call  *)
(* of calculateCommission.                                                *)

SubtotalCents == {1000, 10000} \cup 0..MaxCents
Percents == {5, 10, 50, 60, 100} \cup 0..MaxPercent
Caps == {Null} \cup {Some(Money(c)) : c \in {0, 100, 2000}}
FeeRates == {0, DefaultPaymentFeePerMille}

InitCalc ==
    /\ NoLedger
    /\ \E pf \in Percents, cp \in Percents, minC \in Caps, maxC \in Caps :
          rules = {Rule("rd1", "orgA", "DEFAULT", NoId, TRUE, 0, MaxTime,
                        pf, cp, minC, maxC)}
    /\ now = 0
    /\ \E c \in SubtotalCents, fee \in FeeRates :
          call = [op |-> "calculate",
                  item |-> Item("i1", "o1", "orgA", "s1", c, "MYR"),
                  feePerMille |-> fee, campaignId |-> NoId]
    /\ ret = NoReturn

Calculate ==
    /\ call.op = "calculate"
    /\ ret = NoReturn
    /\ ret' \in calculateCommission(rules, call.item, call.feePerMille,
                                     call.campaignId, now)
    /\ UNCHANGED <<rules, now, call, ledger, payouts, inflight>>

NextCalc == Calculate

SpecCalc == InitCalc /\ [][NextCalc]_vars

-----------------------------------------------------------------------------
(* Specification of the recording of one split: calculateCommission for  *)
(* any rule, subtotal and payment-fee rate, then createLedgerEntries for *)
(* its result, any of whose four creates may fail.                       *)

CalculateAndRecord(dbFailAt) ==
    /\ call.op = "calculate"
    /\ ret = NoReturn
    /\ \E calc \in calculateCommission(rules, call.item, call.feePerMille,
                                       call.campaignId, now) :
          /\ calc.kind = "ok"
          /\ LET r == createLedgerEntries(ledger, calc, OrderRow(call.item.orderId),
                                          OrderCreator(call.item.orderId), now,
                                          dbFailAt)
             IN  /\ ledger' = r.ledger
                 /\ ret' = IF r.kind = "ok"
                           THEN [op |-> "record", kind |-> "ok",
                                 entries |-> r.entries]
                           ELSE [op |-> "record", kind |-> r.kind, code |-> r.code,
                                 details |-> r.details]
    /\ UNCHANGED <<rules, now, call, payouts, inflight>>

NextRecord == \E f \in 0..4 : CalculateAndRecord(f)

SpecRecord == InitCalc /\ [][NextRecord]_vars

-----------------------------------------------------------------------------
(* Specification of a repeated calculation: calculateCommission is called *)
(* twice for the same item, campaign and payment-fee rate under the same  *)
(* rule table, the clock advancing or not between the two calls.          *)

RepeatRules ==
    {Rule("rc1", "orgA", "CAMPAIGN", "k1", TRUE, 1, 2, 50, 60, Null, Null),
     Rule("rs1", "orgA", "SKU", "s1", TRUE, 0, MaxTime, 5, 15, Null, Null),
     Rule("rd1", "orgA", "DEFAULT", NoId, TRUE, 0, MaxTime, 5, 10, Null, Null),
     Rule("rd2", "orgA", "DEFAULT", NoId, TRUE, 2, MaxTime, 6, 11, Null, Null),
     Rule("rd4", "orgA", "DEFAULT", NoId, TRUE, 0, 0, 50, 60, Null, Null)}

InitRepeat ==
    /\ NoLedger
    /\ rules \in SUBSET RepeatRules
    /\ now \in 0..(MaxTime - 1)
    /\ call \in [op : {"calculate"}, item : ResolveItems,
                 feePerMille : {DefaultPaymentFeePerMille},
                 campaignId : {NoId, "k1"}]
    /\ ret = NoReturn

CalculateFirst ==
    /\ ret = NoReturn
    /\ \E o \in calculateCommission(rules, call.item, call.feePerMille,
                                    call.campaignId, now) :
          ret' = [op |-> "calculate", kind |-> "first", first |-> o,
                  firstAt |-> now]
    /\ UNCHANGED <<rules, now, call, ledger, payouts, inflight>>

ClockBetween ==
    /\ ret.kind = "first"
    /\ now < MaxTime
    /\ now' = now + 1
    /\ UNCHANGED <<rules, call, ret, ledger, payouts, inflight>>

CalculateAgain ==
    /\ ret.kind = "first"
    /\ \E o \in calculateCommission(rules, call.item, call.feePerMille,
                                    call.campaignId, now) :
          ret' = [op |-> "calculate", kind |-> "both", first |-> ret.first,
                  firstAt |-> ret.firstAt, second |-> o, secondAt |-> now]
    /\ UNCHANGED <<rules, now, call, ledger, payouts, inflight>>

NextRepeat == CalculateFirst \/ ClockBetween \/ CalculateAgain

SpecRepeat == InitRepeat /\ [][NextRepeat]_vars

-----------------------------------------------------------------------------
(* The status operations of CommissionService *)

ReservedEntries(led, orderId) ==
    {i \in Ids(led) : led[i].orderId = orderId /\ led[i].status = "RESERVED"}

ClearWrites(sel, k, t) ==
    [n \in 1..Len(sel) |->
        Update(sel[n], [status |-> "CLEARED", clearedAt |-> Some(Stamp(n, k, t))])]

ActiveEntries(led, orderId) ==
    {i \in Ids(led) : led[i].orderId = orderId /\ led[i].status \notin {"CANCELLED"}}

(* Mutant: a cancelled entry has its amount set to zero. *)
CancelWrites_ZeroAmount(sel, snapshot, reason, t) ==
    [n \in 1..Len(sel) |->
        Update(sel[n],
               [status |-> "CANCELLED", amount |-> 0,
                metadata |-> [cancellationReason |-> reason,
                              cancelledAt |-> t] @@ snapshot[sel[n]]])]

(* { ...entry.metadata, cancellationReason, cancelledAt } over the rows *)
(* as they were read by findMany.                                       *)
CancelWrites(sel, snapshot, reason, t) ==
    [n \in 1..Len(sel) |->
        Update(sel[n],
               [status |-> "CANCELLED",
                metadata |-> [cancellationReason |-> reason,
                              cancelledAt |-> t] @@ snapshot[sel[n]]])]

PaidWrites(ids, payoutId, t) ==
    [n \in 1..Len(ids) |->
        Update(ids[n], [status |-> "PAID", payoutId |-> Some(payoutId),
                        paidAt |-> Some(t)])]

(* Mutant: every CLEARED commission is marked, listed or not. *)
markCommissionsAsPaid_AllCleared(led, ids, payoutId, t, dbFailAt) ==
    LET all == SortedIds(Range(ids) \cup
                         {i \in Ids(led) : /\ led[i].entryType = "COMMISSION"
                                           /\ led[i].status = "CLEARED"})
        tx == Transaction(led, PaidWrites(all, payoutId, t), dbFailAt)
    IN  IF tx.ok
        THEN [ledger |-> tx.ledger, op |-> "markPaid", kind |-> "ok",
              entries |-> Range(ids)]
        ELSE [ledger |-> tx.ledger, op |-> "markPaid", kind |-> "Internal",
              code |-> "COMMISSION_PAYMENT_UPDATE_FAILED",
              details |-> [payoutId |-> payoutId]]

markCommissionsAsPaid(led, ids, payoutId, t, dbFailAt) ==
    LET tx == Transaction(led, PaidWrites(ids, payoutId, t), dbFailAt)
    IN  IF tx.ok
        THEN [ledger |-> tx.ledger, op |-> "markPaid", kind |-> "ok",
              entries |-> Range(ids)]
        ELSE [ledger |-> tx.ledger, op |-> "markPaid", kind |-> "Internal",
              code |-> "COMMISSION_PAYMENT_UPDATE_FAILED",
              details |-> [payoutId |-> payoutId]]

(* Mutant: the currency of the entries is not looked at. *)
ClearedCommissions_AnyCurrency(led, creatorId, currency) ==
    {i \in Ids(led) :
        /\ led[i].entryType = "COMMISSION"
        /\ led[i].status = "CLEARED"
        /\ led[i].metadata.creatorId = creatorId}

(* The where-clause of getPendingCreatorCommissions. *)
ClearedCommissions(led, creatorId, currency) ==
    {i \in Ids(led) :
        /\ led[i].entryType = "COMMISSION"
        /\ led[i].status = "CLEARED"
        /\ led[i].metadata.creatorId = creatorId
        /\ (currency # NoId => led[i].currency = currency)}

(* Mutant: the rows come in the order of the table, without orderBy. *)
ByCreatedAt_TableOrder(led, S) == SortedIds(S)

(* orderBy createdAt asc; rows of one instant come in id order. *)
RECURSIVE ByCreatedAt(_, _)
ByCreatedAt(led, S) ==
    IF S = {} THEN <<>>
    ELSE LET m == CHOOSE x \in S : \A y \in S :
                    \/ led[x].createdAt < led[y].createdAt
                    \/ (led[x].createdAt = led[y].createdAt /\ x <= y)
         IN  <<m>> \o ByCreatedAt(led, S \ {m})

getPendingCreatorCommissions(led, creatorId, currency) ==
    LET commissions == ByCreatedAt(led, ClearedCommissions(led, creatorId, currency))
    IN  [commissions |-> commissions,
         currency |-> IF currency # NoId THEN currency
                      ELSE IF Len(commissions) > 0 THEN led[commissions[1]].currency
                      ELSE "USD"]

-----------------------------------------------------------------------------
(* The running service: calls interleave at their awaits. *)

ServiceRules ==
    {Rule("rd1", "orgA", "DEFAULT", NoId, TRUE, 0, MaxTime, 5, 10, Null, Null),
     Rule("rd3", "orgB", "DEFAULT", NoId, TRUE, 0, MaxTime, 5, 10, Null, Null)}

Reasons == {"refund"}
PayoutIds == 1..MaxPayouts
Slots == 1..MaxConcurrent

HasFree == \E s \in Slots : inflight[s] = Idle
FreeSlot == CHOOSE s \in Slots :
                inflight[s] = Idle /\ \A r \in Slots : inflight[r] = Idle => s <= r
Suspend(rec) == inflight' = [inflight EXCEPT ![FreeSlot] = rec]
Resume(s) == inflight' = [inflight EXCEPT ![s] = Idle]

Init ==
    /\ rules = ServiceRules
    /\ now = 0
    /\ call = [op |-> "none"]
    /\ ret = NoReturn
    /\ ledger = <<>>
    /\ payouts = <<>>
    /\ inflight = [s \in Slots |-> Idle]

Tick ==
    /\ now < MaxClock
    /\ now' = now + 1
    /\ UNCHANGED <<rules, call, ret, ledger, payouts, inflight>>

(* recordSaleSplit: createLedgerEntries for the calculation of one item. *)
RecordSaleSplit(orderId, idx, creatorId, dbFailAt) ==
    LET item == OrderItems(orderId)[idx]
    IN  /\ Len(ledger) + 4 <= 4 * MaxSplits
        /\ \E calc \in calculateCommission(rules, item, DefaultPaymentFeePerMille,
                                           NoId, now) :
              /\ calc.kind = "ok"
              /\ LET r == createLedgerEntries(ledger, calc, OrderRow(orderId),
                                              creatorId, now, dbFailAt)
                 IN  /\ ledger' = r.ledger
                     /\ ret' = IF r.kind = "ok"
                               THEN [op |-> "record", kind |-> "ok",
                                     entries |-> r.entries]
                               ELSE [op |-> "record", kind |-> r.kind,
                                     code |-> r.code, details |-> r.details]
        /\ UNCHANGED <<rules, now, call, payouts, inflight>>

(* clearLedgerEntries: findMany, then the transaction of updates. *)
ClearSelect(orderId) ==
    LET sel == ReservedEntries(ledger, orderId)
    IN  /\ IF sel = {}
           THEN /\ ret' = [op |-> "clear", kind |-> "ok", entries |-> {}]
                /\ UNCHANGED inflight
           ELSE /\ HasFree
                /\ Suspend([op |-> "clear", orderId |-> orderId,
                            selected |-> SortedIds(sel)])
                /\ UNCHANGED ret
        /\ UNCHANGED <<rules, now, call, ledger, payouts>>

ClearUpdate(s, k, dbFailAt) ==
    LET c == inflight[s]
        tx == Transaction(ledger, ClearWrites(c.selected, k, now), dbFailAt)
    IN  /\ c.op = "clear"
        /\ CanStamp(Len(c.selected), k, now)
        /\ ledger' = tx.ledger
        /\ now' = ClockAfter(Len(c.selected), k, now)
        /\ ret' = IF tx.ok
                  THEN [op |-> "clear", kind |-> "ok", entries |-> Range(c.selected)]
                  ELSE [op |-> "clear", kind |-> "Internal",
                        code |-> "LEDGER_ENTRY_CLEARING_FAILED",
                        details |-> [orderId |-> c.orderId]]
        /\ Resume(s)
        /\ UNCHANGED <<rules, call, payouts>>

(* cancelLedgerEntries: findMany, then the transaction of updates. *)
CancelSelect(orderId, reason) ==
    LET sel == ActiveEntries(ledger, orderId)
    IN  /\ IF sel = {}
           THEN /\ ret' = [op |-> "cancel", kind |-> "ok", entries |-> {}]
                /\ UNCHANGED inflight
           ELSE /\ HasFree
                /\ Suspend([op |-> "cancel", orderId |-> orderId, reason |-> reason,
                            selected |-> SortedIds(sel),
                            snapshot |-> [i \in sel |-> ledger[i].metadata]])
                /\ UNCHANGED ret
        /\ UNCHANGED <<rules, now, call, ledger, payouts>>

CancelUpdate(s, dbFailAt) ==
    LET c == inflight[s]
        tx == Transaction(ledger,
                          CancelWrites(c.selected, c.snapshot, c.reason, now),
                          dbFailAt)
    IN  /\ c.op = "cancel"
        /\ ledger' = tx.ledger
        /\ ret' = IF tx.ok
                  THEN [op |-> "cancel", kind |-> "ok", entries |-> Range(c.selected)]
                  ELSE [op |-> "cancel", kind |-> "Internal",
                        code |-> "LEDGER_ENTRY_CANCELLATION_FAILED",
                        details |-> [orderId |-> c.orderId]]
        /\ Resume(s)
        /\ UNCHANGED <<rules, now, call, payouts>>

(* A call of markCommissionsAsPaid with any list of commission entry ids, *)
(* one of which may name no row.                                          *)
CommissionIds(led) == {i \in Ids(led) : led[i].entryType = "COMMISSION"}

IdLists(led) ==
    LET pool == CommissionIds(led) \cup {Len(led) + 1}
    IN  {SortedIds(S) : S \in {T \in SUBSET pool : Cardinality(T) \in 1..2}}

MarkPaid(ids, payoutId, dbFailAt) ==
    LET r == markCommissionsAsPaid(ledger, ids, payoutId, now, dbFailAt)
    IN  /\ ledger' = r.ledger
        /\ ret' = [x \in DOMAIN r \ {"ledger"} |-> r[x]]
        /\ UNCHANGED <<rules, now, call, payouts, inflight>>

(* A payout run: getPendingCreatorCommissions for the payout being built, *)
(* and markCommissionsAsPaid for the selected entries once the provider   *)
(* has confirmed the payout.                                              *)
PayoutSelect(creatorId, currency, payoutId) ==
    LET r == getPendingCreatorCommissions(ledger, creatorId, currency)
    IN  /\ \A s \in Slots : inflight[s].op = "payout" => inflight[s].payoutId # payoutId
        /\ IF Len(r.commissions) = 0
           THEN /\ ret' = [op |-> "payout", kind |-> "ok", entries |-> {}]
                /\ UNCHANGED inflight
           ELSE /\ HasFree
                /\ Suspend([op |-> "payout", creatorId |-> creatorId,
                            currency |-> r.currency, payoutId |-> payoutId,
                            selected |-> r.commissions])
                /\ UNCHANGED ret
        /\ UNCHANGED <<rules, now, call, ledger, payouts>>

PayoutConfirm(s, dbFailAt) ==
    LET c == inflight[s]
        r == markCommissionsAsPaid(ledger, c.selected, c.payoutId, now, dbFailAt)
    IN  /\ c.op = "payout"
        /\ ledger' = r.ledger
        /\ ret' = [x \in DOMAIN r \ {"ledger"} |-> r[x]]
        /\ Resume(s)
        /\ UNCHANGED <<rules, now, call, payouts>>

Next ==
    \/ Tick
    \/ \E o \in Orders, f \in 0..4 :
          \E n \in 1..Len(OrderItems(o)) : RecordSaleSplit(o, n, OrderCreator(o), f)
    \/ \E o \in Orders : ClearSelect(o)
    \/ \E s \in Slots, k \in 0..(4 * MaxSplits), f \in 0..1 : ClearUpdate(s, k, f)
    \/ \E o \in Orders, r \in Reasons : CancelSelect(o, r)
    \/ \E s \in Slots, f \in 0..1 : CancelUpdate(s, f)
    \/ \E ids \in IdLists(ledger), p \in PayoutIds, f \in 0..1 : MarkPaid(ids, p, f)
    \/ \E u \in Creators, c \in {NoId, "MYR", "USD"}, p \in PayoutIds :
          PayoutSelect(u, c, p)
    \/ \E s \in Slots, f \in 0..1 : PayoutConfirm(s, f)

Spec == Init /\ [][Next]_vars

-----------------------------------------------------------------------------
(* Specification of order processing: processOrderCommissions calls, two *)
(* of which may be under way at once, under any of the rule tables.      *)

RuleConfigs ==
    {ServiceRules,
     {Rule("rs1", "orgA", "SKU", "s1", TRUE, 0, MaxTime, 5, 15, Null, Null),
      Rule("rc1", "orgA", "CAMPAIGN", "k1", TRUE, 0, MaxTime, 50, 60, Null, Null)},
     {}}

InitProcess ==
    /\ rules \in RuleConfigs
    /\ now = 0
    /\ call = [op |-> "none"]
    /\ ret = NoReturn
    /\ ledger = <<>>
    /\ payouts = <<>>
    /\ inflight = [s \in Slots |-> Idle]

(* Mutant: without a creator the call goes on for the first creator. *)
ProcessStart_DefaultCreator(orderId, campaignId, creatorId) ==
    LET creator ==
            IF creatorId = NoId /\ campaignId # NoId /\ campaignId # MissingCampaign
            THEN CampaignCreator(campaignId)
            ELSE IF creatorId = NoId THEN "u1" ELSE creatorId
    IN  /\ \/ /\ orderId = MissingOrder
              /\ ret' = [op |-> "process", orderId |-> orderId, kind |-> "NotFound",
                         code |-> "ORDER_NOT_FOUND"]
              /\ UNCHANGED inflight
           \/ /\ orderId # MissingOrder
              /\ HasFree
              /\ Suspend([op |-> "process", orderId |-> orderId,
                          campaignId |-> campaignId, creatorId |-> creator,
                          idx |-> 1, entries |-> {}])
              /\ UNCHANGED ret
        /\ UNCHANGED <<rules, now, call, ledger, payouts>>

(* processOrderCommissions up to its loop: the order, then the creator. *)
ProcessStart(orderId, campaignId, creatorId) ==
    LET creator ==
            IF creatorId = NoId /\ campaignId # NoId /\ campaignId # MissingCampaign
            THEN CampaignCreator(campaignId) ELSE creatorId
    IN  /\ \/ /\ orderId = MissingOrder
              /\ ret' = [op |-> "process", orderId |-> orderId, kind |-> "NotFound",
                         code |-> "ORDER_NOT_FOUND"]
              /\ UNCHANGED inflight
           \/ /\ orderId # MissingOrder
              /\ creator = NoId
              /\ ret' = [op |-> "process", orderId |-> orderId,
                         kind |-> "Validation", code |-> "CREATOR_ID_REQUIRED"]
              /\ UNCHANGED inflight
           \/ /\ orderId # MissingOrder
              /\ creator # NoId
              /\ HasFree
              /\ Suspend([op |-> "process", orderId |-> orderId,
                          campaignId |-> campaignId, creatorId |-> creator,
                          idx |-> 1, entries |-> {}])
              /\ UNCHANGED ret
        /\ UNCHANGED <<rules, now, call, ledger, payouts>>

(* Mutant: an error takes back what the call has written so far, and *)
(* everything written after it.                                      *)
ProcessItem_OrderRollback(s, dbFailAt) ==
    LET c == inflight[s]
        order == OrderRow(c.orderId)
        item == OrderItems(c.orderId)[c.idx]
        kept == IF c.entries = {} THEN ledger
                ELSE SubSeq(ledger, 1,
                            (CHOOSE i \in c.entries : \A j \in c.entries : i <= j) - 1)
    IN  /\ c.op = "process"
        /\ \E calc \in calculateCommission(rules, item, DefaultPaymentFeePerMille,
                                           c.campaignId, now) :
              IF calc.kind # "ok"
              THEN /\ ret' = [op |-> "process", orderId |-> c.orderId,
                              kind |-> calc.kind, code |-> calc.code,
                              orderItemId |-> item.id]
                   /\ Resume(s)
                   /\ ledger' = kept
              ELSE LET r == createLedgerEntries(ledger, calc, order, c.creatorId,
                                                now, dbFailAt)
                   IN  /\ Len(ledger) + 4 <= 4 * MaxProcessSplits
                       /\ IF r.kind # "ok"
                          THEN /\ ret' = [op |-> "process", orderId |-> c.orderId,
                                          kind |-> r.kind, code |-> r.code,
                                          orderItemId |-> r.orderItemId,
                                          details |-> r.details]
                               /\ ledger' = kept
                               /\ Resume(s)
                          ELSE IF c.idx = Len(OrderItems(c.orderId))
                          THEN /\ ret' = [op |-> "process", orderId |-> c.orderId,
                                          kind |-> "ok",
                                          entries |-> c.entries \cup r.entries]
                               /\ ledger' = r.ledger
                               /\ Resume(s)
                          ELSE /\ inflight' = [inflight EXCEPT ![s] =
                                     [c EXCEPT !.idx = c.idx + 1,
                                               !.entries = c.entries \cup r.entries]]
                               /\ ledger' = r.ledger
                               /\ UNCHANGED ret
        /\ UNCHANGED <<rules, now, call, payouts>>

(* One turn of the loop of processOrderCommissions: calculateCommission, *)
(* then createLedgerEntries for the item; an error ends the call.        *)
ProcessItem(s, dbFailAt) ==
    LET c == inflight[s]
        order == OrderRow(c.orderId)
        item == OrderItems(c.orderId)[c.idx]
    IN  /\ c.op = "process"
        /\ \E calc \in calculateCommission(rules, item, DefaultPaymentFeePerMille,
                                           c.campaignId, now) :
              IF calc.kind # "ok"
              THEN /\ ret' = [op |-> "process", orderId |-> c.orderId,
                              kind |-> calc.kind, code |-> calc.code,
                              orderItemId |-> item.id]
                   /\ Resume(s)
                   /\ UNCHANGED ledger
              ELSE LET r == createLedgerEntries(ledger, calc, order, c.creatorId,
                                                now, dbFailAt)
                   IN  /\ Len(ledger) + 4 <= 4 * MaxProcessSplits
                       /\ ledger' = r.ledger
                       /\ IF r.kind # "ok"
                          THEN /\ ret' = [op |-> "process", orderId |-> c.orderId,
                                          kind |-> r.kind, code |-> r.code,
                                          orderItemId |-> r.orderItemId,
                                          details |-> r.details]
                               /\ Resume(s)
                          ELSE IF c.idx = Len(OrderItems(c.orderId))
                          THEN /\ ret' = [op |-> "process", orderId |-> c.orderId,
                                          kind |-> "ok",
                                          entries |-> c.entries \cup r.entries]
                               /\ Resume(s)
                          ELSE /\ inflight' = [inflight EXCEPT ![s] =
                                     [c EXCEPT !.idx = c.idx + 1,
                                               !.entries = c.entries \cup r.entries]]
                               /\ UNCHANGED ret
        /\ UNCHANGED <<rules, now, call, payouts>>

NextProcess ==
    \/ \E o \in Orders \cup {MissingOrder}, k \in {NoId, "k1", MissingCampaign},
          u \in Creators \cup {NoId} : ProcessStart(o, k, u)
    \/ \E s \in Slots, f \in 0..4 : ProcessItem(s, f)

SpecProcess == InitProcess /\ [][NextProcess]_vars

-----------------------------------------------------------------------------
(* Specification of the seed script: step 9 writes the ledger entries of *)
(* the order items, step 10 creates the payouts of the creators.         *)

SeedOrderStatuses == {"PENDING", "PAID", "FULFILLED"}
SeedSubtotalCents == {10000, 20000}
SeedCurrencies == {"MYR", "USD"}
SeedCreatorPercent == 10
SeedPlatformFeePercent == 5

SeedEntry(id, n, type, amount, currency, orderStatus, ext, meta, t) ==
    [id |-> id, organizationId |-> "orgA", orderId |-> n, orderItemId |-> n,
     entryType |-> type, amount |-> amount, currency |-> currency,
     status |-> IF orderStatus = "PAID" THEN "CLEARED" ELSE "RESERVED",
     createdAt |-> t,
     clearedAt |-> IF orderStatus = "PAID" THEN Some(ext) ELSE Null,
     paidAt |-> Null, payoutId |-> Null, metadata |-> meta]

(* Step 9, for one order item of a campaign: the split without any clamp, *)
(* and the four entries.                                                  *)
SeedSplitWrites(led, cents, currency, orderStatus, ext, creatorId, t) ==
    LET n == Len(led) \div 4 + 1
        subtotal == Money(cents)
        platformFee == (subtotal * SeedPlatformFeePercent) \div 100
        creatorCommission == (subtotal * SeedCreatorPercent) \div 100
        paymentFee == (subtotal * DefaultPaymentFeePerMille) \div 1000
        meta == [calculationId |-> t, appliedRuleId |-> "rd1",
                 appliedRuleType |-> "DEFAULT"]
        cmeta == [calculationId |-> t, appliedRuleId |-> "rd1",
                  appliedRuleType |-> "DEFAULT", creatorId |-> creatorId]
    IN  <<Create(SeedEntry(Len(led) + 1, n, "SALE", subtotal, currency,
                           orderStatus, ext, meta, t)),
          Create(SeedEntry(Len(led) + 2, n, "PLATFORM_FEE", platformFee, currency,
                           orderStatus, ext, meta, t)),
          Create(SeedEntry(Len(led) + 3, n, "COMMISSION", creatorCommission, currency,
                           orderStatus, ext, cmeta, t)),
          Create(SeedEntry(Len(led) + 4, n, "PAYMENT_FEE", paymentFee, currency,
                           orderStatus, ext, meta, t))>>

RECURSIVE SumAmounts(_, _)
SumAmounts(led, S) ==
    IF S = {} THEN 0
    ELSE LET i == CHOOSE x \in S : TRUE
         IN  led[i].amount + SumAmounts(led, S \ {i})

(* Step 10, for one currency group of a creator: the payout row. first and *)
(* last are entries[0] and entries[entries.length - 1] of a findMany that  *)
(* has no orderBy.                                                         *)
SeedPayout(led, id, creatorId, currency, group, status, first, last, t) ==
    [id |-> id, organizationId |-> led[first].organizationId,
     recipient |-> creatorId, recipientType |-> "USER",
     amount |-> SumAmounts(led, group),
     fee |-> SumAmounts(led, group) \div 100,
     currency |-> currency, status |-> status,
     scheduledDate |-> t, processedDate |-> t,
     metadata |-> [entryCount |-> Cardinality(group),
                   periodStart |-> led[first].createdAt,
                   periodEnd |-> led[last].createdAt]]

(* Step 10: the update of each entry of the group. *)
SeedLinkWrites(group, payout) ==
    LET ids == SortedIds(group)
    IN  [n \in 1..Len(ids) |->
            Update(ids[n],
                   [payoutId |-> Some(payout.id),
                    status |-> IF payout.status = "SUCCEEDED" THEN "PAID"
                               ELSE "CLEARED",
                    paidAt |-> IF payout.status = "SUCCEEDED"
                               THEN Some(payout.processedDate) ELSE Null])]

InitSeed ==
    /\ rules = ServiceRules
    /\ now = 0
    /\ call = [op |-> "seed", step |-> "orders", done |-> {}]
    /\ ret = NoReturn
    /\ ledger = <<>>
    /\ payouts = <<>>
    /\ inflight = [s \in Slots |-> Idle]

SeedTick ==
    /\ now < MaxClock
    /\ now' = now + 1
    /\ UNCHANGED <<rules, call, ret, ledger, payouts, inflight>>

SeedOrderItem(cents, currency, orderStatus, ext, creatorId) ==
    /\ call.step = "orders"
    /\ Len(ledger) < 4 * MaxSeedItems
    /\ ext <= now
    /\ ledger' = ApplyWrites(ledger,
                     SeedSplitWrites(ledger, cents, currency, orderStatus, ext,
                                     creatorId, now), 4)
    /\ UNCHANGED <<rules, now, call, ret, payouts, inflight>>

SeedStartPayouts ==
    /\ call.step = "orders"
    /\ call' = [call EXCEPT !.step = "payouts"]
    /\ UNCHANGED <<rules, now, ret, ledger, payouts, inflight>>

SeedPayoutGroup(creatorId, currency, status, first, last) ==
    LET group == ClearedCommissions(ledger, creatorId, currency)
        payout == SeedPayout(ledger, Len(payouts) + 1, creatorId, currency, group,
                             status, first, last, now)
    IN  /\ call.step = "payouts"
        /\ <<creatorId, currency>> \notin call.done
        /\ first \in group
        /\ last \in group
        /\ (Cardinality(group) > 1 => first # last)
        /\ payouts' = Append(payouts, payout)
        /\ ledger' = ApplyWrites(ledger, SeedLinkWrites(group, payout),
                                 Cardinality(group))
        /\ call' = [call EXCEPT !.done = @ \cup {<<creatorId, currency>>}]
        /\ UNCHANGED <<rules, now, ret, inflight>>

NextSeed ==
    \/ SeedTick
    \/ \E c \in SeedSubtotalCents, cur \in SeedCurrencies, st \in SeedOrderStatuses,
          ext \in 0..MaxClock, u \in Creators : SeedOrderItem(c, cur, st, ext, u)
    \/ SeedStartPayouts
    \/ \E u \in Creators, cur \in SeedCurrencies, st \in {"SUCCEEDED", "PROCESSING"},
          first \in 1..(4 * MaxSeedItems), last \in 1..(4 * MaxSeedItems) :
          SeedPayoutGroup(u, cur, st, first, last)

SpecSeed == InitSeed /\ [][NextSeed]_vars

-----------------------------------------------------------------------------
(* Specification of payout creation: step 10 of the seed script over the *)
(* ledger that step 9 leaves for three order items with commissions of   *)
(* 10.00, 20.00 and 30.00, of any order status, currency and creator.    *)

SeedLedger(c1, c2, c3, st1, st2, st3, u1, u2, u3, t2) ==
    LET l1 == ApplyWrites(<<>>, SeedSplitWrites(<<>>, 10000, c1, st1, 0, u1, 0), 4)
        l2 == ApplyWrites(l1, SeedSplitWrites(l1, 20000, c2, st2, 0, u2, t2), 4)
    IN  ApplyWrites(l2, SeedSplitWrites(l2, 30000, c3, st3, 0, u3, MaxClock), 4)

InitPayout ==
    /\ rules = ServiceRules
    /\ now = MaxClock
    /\ call = [op |-> "seed", step |-> "payouts", done |-> {}]
    /\ ret = NoReturn
    /\ payouts = <<>>
    /\ inflight = [s \in Slots |-> Idle]
    /\ \E c1 \in SeedCurrencies, c2 \in SeedCurrencies, c3 \in SeedCurrencies,
          st1 \in SeedOrderStatuses, st2 \in SeedOrderStatuses,
          st3 \in SeedOrderStatuses,
          u1 \in Creators, u2 \in Creators, u3 \in Creators, t2 \in 0..MaxClock :
          ledger = SeedLedger(c1, c2, c3, st1, st2, st3, u1, u2, u3, t2)

NextPayout ==
    \E u \in Creators, cur \in SeedCurrencies, st \in {"SUCCEEDED", "PROCESSING"},
       first \in Ids(ledger), last \in Ids(ledger) :
       SeedPayoutGroup(u, cur, st, first, last)

SpecPayout == InitPayout /\ [][NextPayout]_vars

-----------------------------------------------------------------------------
(* Specification of a settlement confirmation: one call of               *)
(* markCommissionsAsPaid, with any list of one or two commission entry   *)
(* ids, over the ledger of three order items.                            *)

InitSettle ==
    /\ InitPayout
    /\ \E i \in Ids(ledger) :
          ledger[i].entryType = "COMMISSION" /\ ledger[i].status = "CLEARED"

ConfirmSettlement(ids, payoutId, dbFailAt) ==
    /\ ret = NoReturn
    /\ MarkPaid(ids, payoutId, dbFailAt)

NextSettle ==
    \E ids \in IdLists(ledger), p \in PayoutIds, f \in 0..2 :
        ConfirmSettlement(ids, p, f)

SpecSettle == InitSettle /\ [][NextSettle]_vars

-----------------------------------------------------------------------------
(* Specification of the query for payable commissions: a ledger of three *)
(* entries of any status, creator, currency and creation time, in any    *)
(* table order; one call of getPendingCreatorCommissions.                *)

LedgerEntryStatus == {"RESERVED", "CLEARED", "PAID", "CANCELLED"}

(* An entry as the status operations leave it in the given status. *)
StoredEntry(id, type, status, creatorId, currency, t) ==
    [id |-> id, organizationId |-> "orgA", orderId |-> "o1", orderItemId |-> "i1",
     entryType |-> type, amount |-> Money(1000), currency |-> currency,
     status |-> status, createdAt |-> t,
     clearedAt |-> IF status \in {"CLEARED", "PAID"} THEN Some(t) ELSE Null,
     paidAt |-> IF status = "PAID" THEN Some(t) ELSE Null,
     payoutId |-> IF status = "PAID" THEN Some(1) ELSE Null,
     metadata |-> IF type = "COMMISSION"
                  THEN [calculationId |-> t, appliedRuleId |-> "rd1",
                        appliedRuleType |-> "DEFAULT", creatorId |-> creatorId]
                  ELSE [calculationId |-> t, appliedRuleId |-> "rd1",
                        appliedRuleType |-> "DEFAULT"]]

InitPending ==
    /\ rules = ServiceRules
    /\ now = MaxClock
    /\ call = [op |-> "none"]
    /\ ret = NoReturn
    /\ payouts = <<>>
    /\ inflight = [s \in Slots |-> Idle]
    /\ \E s1 \in LedgerEntryStatus, s2 \in LedgerEntryStatus, s3 \in {"CLEARED", "PAID"},
          u1 \in Creators, u2 \in Creators,
          c1 \in {"MYR", "USD"}, c2 \in {"MYR", "USD"},
          t1 \in 0..MaxClock, t2 \in 0..MaxClock, t3 \in 0..MaxClock,
          type3 \in {"SALE", "COMMISSION"} :
          ledger = <<StoredEntry(1, "COMMISSION", s1, u1, c1, t1),
                     StoredEntry(2, "COMMISSION", s2, u2, c2, t2),
                     StoredEntry(3, type3, s3, "u1", "MYR", t3)>>

Pending(creatorId, currency) ==
    /\ ret = NoReturn
    /\ call' = [op |-> "pending", creatorId |-> creatorId, currency |-> currency]
    /\ ret' = [op |-> "pending", kind |-> "ok"]
                  @@ getPendingCreatorCommissions(ledger, creatorId, currency)
    /\ UNCHANGED <<rules, now, ledger, payouts, inflight>>

NextPending == \E u \in Creators, c \in {NoId, "MYR", "USD"} : Pending(u, c)

SpecPending == InitPending /\ [][NextPending]_vars

-----------------------------------------------------------------------------
(* CommissionService.reconcileCommissions, and the specification of one *)
(* call of it for any organization and date range over a ledger of      *)
(* three entries of any status, organization and creation time.         *)

(* The where-clause of reconcileCommissions. *)
CommissionsInRange(led, organizationId, startDate, endDate) ==
    {i \in Ids(led) :
        /\ led[i].organizationId = organizationId
        /\ led[i].entryType = "COMMISSION"
        /\ led[i].createdAt >= startDate
        /\ led[i].createdAt <= endDate}

WithStatus(led, S, statuses) == {i \in S : led[i].status \in statuses}

(* Mutant: RESERVED entries are not counted as pending. *)
Reconciliation_ClearedPending(led, commissions) ==
    LET totalCommissions == SumAmounts(led, commissions)
        totalPaid == SumAmounts(led, WithStatus(led, commissions, {"PAID"}))
        totalPending == SumAmounts(led, WithStatus(led, commissions, {"CLEARED"}))
        discrepancyAmount == totalCommissions - (totalPaid + totalPending)
    IN  [totalCommissions |-> totalCommissions,
         totalPaid |-> totalPaid,
         totalPending |-> totalPending,
         reconciliationStatus |->
             IF discrepancyAmount = 0 THEN "BALANCED" ELSE "DISCREPANCY",
         discrepancyAmount |->
             IF discrepancyAmount = 0 THEN Null ELSE Some(discrepancyAmount)]

(* The totals over the rows found, and the verdict. *)
Reconciliation(led, commissions) ==
    LET totalCommissions == SumAmounts(led, commissions)
        totalPaid == SumAmounts(led, WithStatus(led, commissions, {"PAID"}))
        totalPending ==
            SumAmounts(led, WithStatus(led, commissions, {"CLEARED", "RESERVED"}))
        discrepancyAmount == totalCommissions - (totalPaid + totalPending)
    IN  [totalCommissions |-> totalCommissions,
         totalPaid |-> totalPaid,
         totalPending |-> totalPending,
         reconciliationStatus |->
             IF discrepancyAmount = 0 THEN "BALANCED" ELSE "DISCREPANCY",
         discrepancyAmount |->
             IF discrepancyAmount = 0 THEN Null ELSE Some(discrepancyAmount)]

(* Mutant: on a discrepancy the CANCELLED entries found are set to zero. *)
reconcileCommissions_AutoCorrect(led, organizationId, startDate, endDate, dbFails) ==
    LET found == CommissionsInRange(led, organizationId, startDate, endDate)
        r == Reconciliation(led, found)
    IN  IF dbFails
        THEN [ledger |-> led, op |-> "reconcile", kind |-> "Internal",
              code |-> "COMMISSION_RECONCILIATION_FAILED",
              organizationId |-> organizationId]
        ELSE [ledger |-> [i \in Ids(led) |->
                            IF i \in found /\ led[i].status = "CANCELLED"
                            THEN [led[i] EXCEPT !.amount = 0] ELSE led[i]],
              op |-> "reconcile", kind |-> "ok"] @@ r

(* reconcileCommissions: the findMany, which may fail, and the totals. *)
reconcileCommissions(led, organizationId, startDate, endDate, dbFails) ==
    IF dbFails
    THEN [ledger |-> led, op |-> "reconcile", kind |-> "Internal",
          code |-> "COMMISSION_RECONCILIATION_FAILED",
          organizationId |-> organizationId]
    ELSE [ledger |-> led, op |-> "reconcile", kind |-> "ok"]
            @@ Reconciliation(led, CommissionsInRange(led, organizationId,
                                                      startDate, endDate))

Organizations == {"orgA", "orgB"}

AuditEntry(id, type, status, organizationId, amount, t) ==
    [StoredEntry(id, type, status, "u1", "MYR", t)
        EXCEPT !.organizationId = organizationId, !.amount = amount]

InitReconcile ==
    /\ rules = ServiceRules
    /\ now = MaxClock
    /\ call = [op |-> "none"]
    /\ ret = NoReturn
    /\ payouts = <<>>
    /\ inflight = [s \in Slots |-> Idle]
    /\ \E s1 \in LedgerEntryStatus, s2 \in LedgerEntryStatus,
          s3 \in {"CLEARED", "CANCELLED"},
          o1 \in Organizations, o2 \in Organizations,
          a1 \in {0, Money(1000)},
          t1 \in 0..MaxClock, t2 \in 0..MaxClock, t3 \in 0..MaxClock,
          type3 \in {"SALE", "COMMISSION"} :
          ledger = <<AuditEntry(1, "COMMISSION", s1, o1, a1, t1),
                     AuditEntry(2, "COMMISSION", s2, o2, Money(2000), t2),
                     AuditEntry(3, type3, s3, "orgA", Money(4000), t3)>>

Reconcile(organizationId, startDate, endDate, dbFails) ==
    LET r == reconcileCommissions(ledger, organizationId, startDate, endDate,
                                  dbFails)
    IN  /\ ret = NoReturn
        /\ call' = [op |-> "reconcile", organizationId |-> organizationId,
                    startDate |-> startDate, endDate |-> endDate]
        /\ ledger' = r.ledger
        /\ ret' = [x \in DOMAIN r \ {"ledger"} |-> r[x]]
        /\ UNCHANGED <<rules, now, payouts, inflight>>

NextReconcile ==
    \E o \in Organizations, from \in 0..MaxClock, to \in 0..MaxClock,
       dbFails \in BOOLEAN : Reconcile(o, from, to, dbFails)

SpecReconcile == InitReconcile /\ [][NextReconcile]_vars

-----------------------------------------------------------------------------
(* The error classes of utils/errors and the errorHandler middleware. A  *)
(* message is the sequence of the parts it is put together from; an      *)
(* optional property is Null (undefined) or Some(value).                 *)

MaxErrorIds == 2

AppError(class, message, statusCode, errorCode, details, isOperational, stack) ==
    [kind |-> "AppError", class |-> class, message |-> message,
     statusCode |-> statusCode, errorCode |-> errorCode, details |-> details,
     isOperational |-> isOperational, stack |-> stack]

(* errorCode || 'DEFAULT' and message = 'default' of the constructors. *)
OrCode(errorCode, default) == IF IsSet(errorCode) THEN errorCode ELSE Some(default)
OrMessage(message, default) == IF message = Null THEN <<default>> ELSE message

BadRequestError(message, errorCode, details, stack) ==
    AppError("BadRequestError", OrMessage(message, "Bad request"), 400,
             OrCode(errorCode, "BAD_REQUEST"), details, TRUE, stack)

ValidationError(message, errorCode, details, stack) ==
    AppError("ValidationError", OrMessage(message, "Validation failed"), 400,
             OrCode(errorCode, "VALIDATION_ERROR"), details, TRUE, stack)

UnauthorizedError(message, errorCode, details, stack) ==
    AppError("UnauthorizedError", OrMessage(message, "Authentication required"), 401,
             OrCode(errorCode, "UNAUTHORIZED"), details, TRUE, stack)

ForbiddenError(message, errorCode, details, stack) ==
    AppError("ForbiddenError", OrMessage(message, "Permission denied"), 403,
             OrCode(errorCode, "FORBIDDEN"), details, TRUE, stack)

NewNotFoundError(message, errorCode, details, stack) ==
    AppError("NotFoundError", OrMessage(message, "Resource not found"), 404,
             OrCode(errorCode, "NOT_FOUND"), details, TRUE, stack)

ConflictError(message, errorCode, details, stack) ==
    AppError("ConflictError", OrMessage(message, "Resource conflict"), 409,
             OrCode(errorCode, "CONFLICT"), details, TRUE, stack)

RateLimitError(message, errorCode, details, stack) ==
    AppError("RateLimitError", OrMessage(message, "Too many requests"), 429,
             OrCode(errorCode, "RATE_LIMIT"), details, TRUE, stack)

InternalServerError(message, errorCode, details, stack) ==
    AppError("InternalServerError", OrMessage(message, "Internal server error"), 500,
             OrCode(errorCode, "INTERNAL_SERVER_ERROR"), details, FALSE, stack)

ExternalServiceError(message, errorCode, details, stack) ==
    AppError("ExternalServiceError", OrMessage(message, "External service error"),
             502, OrCode(errorCode, "EXTERNAL_SERVICE_ERROR"), details, FALSE, stack)

ServiceUnavailableError(message, errorCode, details, stack) ==
    AppError("ServiceUnavailableError",
             OrMessage(message, "Service temporarily unavailable"), 503,
             OrCode(errorCode, "SERVICE_UNAVAILABLE"), details, FALSE, stack)

isAppError(error) == error.kind = "AppError"

(* Errors that are not AppErrors: Prisma's known-request error, zod's *)
(* ZodError, and any other Error.                                     *)
PrismaClientKnownRequestError(code, target, stack) ==
    [kind |-> "Prisma", code |-> code, target |-> target,
     message |-> <<"Invalid invocation">>, stack |-> stack]

ZodError(errors, stack) ==
    [kind |-> "Zod", errors |-> errors, message |-> <<"Invalid input">>,
     stack |-> stack]

PlainError(message, stack) ==
    [kind |-> "Error", message |-> message, stack |-> stack]

(* ${field || 'word'} inside a message. *)
FieldOr(field, word) == IF IsSet(field) THEN Val(field) ELSE word

(* Mutant: every database error is answered as an internal error. *)
handlePrismaError_AllInternal(error, stack) ==
    InternalServerError(<<"A database error occurred.">>, Some("DATABASE_ERROR"),
                        Some([code |-> error.code]), stack)

(* handlePrismaError; stack is the stack of the AppError it constructs. *)
handlePrismaError(error, stack) ==
    LET field == IF Len(error.target) > 0 THEN Some(error.target[1]) ELSE Null
    IN  CASE error.code = "P2002" ->
               ConflictError(<<"A record with this ", FieldOr(field, "value"),
                               " already exists.">>,
                             Some("UNIQUE_CONSTRAINT_VIOLATION"),
                             Some([field |-> field, code |-> error.code]), stack)
          [] error.code = "P2025" ->
               NewNotFoundError(<<"The requested record was not found.">>,
                                Some("RECORD_NOT_FOUND"),
                                Some([code |-> error.code]), stack)
          [] error.code = "P2003" ->
               ValidationError(<<"Invalid reference to ",
                                 FieldOr(field, "related record"), ".">>,
                               Some("FOREIGN_KEY_VIOLATION"),
                               Some([field |-> field, code |-> error.code]), stack)
          [] error.code = "P2000" ->
               ValidationError(<<"The provided value for ",
                                 FieldOr(field, "a field"), " is too long.">>,
                               Some("VALUE_TOO_LONG"),
                               Some([field |-> field, code |-> error.code]), stack)
          [] error.code = "P2004" ->
               ValidationError(<<"A required field ", FieldOr(field, ""),
                                 " is missing.">>,
                               Some("REQUIRED_FIELD_MISSING"),
                               Some([field |-> field, code |-> error.code]), stack)
          [] OTHER ->
               InternalServerError(<<"A database error occurred.">>,
                                   Some("DATABASE_ERROR"),
                                   Some([code |-> error.code]), stack)

(* path.join('.') *)
RECURSIVE JoinDot(_)
JoinDot(path) ==
    IF Len(path) <= 1 THEN path
    ELSE <<Head(path), ".">> \o JoinDot(Tail(path))

handleZodError(error, stack) ==
    ValidationError(<<"Validation failed">>, Some("VALIDATION_ERROR"),
                    Some([n \in 1..Len(error.errors) |->
                            [path |-> JoinDot(error.errors[n].path),
                             message |-> error.errors[n].message,
                             code |-> error.errors[n].code]]),
                    stack)

(* The AppError the handler answers with. *)
MappedError(err, stack) ==
    IF isAppError(err) THEN err
    ELSE IF err.kind = "Prisma" THEN handlePrismaError(err, stack)
    ELSE IF err.kind = "Zod" THEN handleZodError(err, stack)
    ELSE InternalServerError(IF err.message = <<>>
                             THEN <<"An unexpected error occurred">>
                             ELSE err.message,
                             Some("INTERNAL_SERVER_ERROR"), Null, stack)

(* appError instanceof ValidationError: the class has no subclass. *)
InstanceOfValidationError(appError) == appError.class = "ValidationError"

(* res.json: JSON.stringify leaves out the properties that are undefined. *)
Json(obj) ==
    [k \in {x \in DOMAIN obj :
               x \in {"code", "details", "stack", "requestId"} => obj[x] # Null}
        |-> obj[k]]

(* Mutant: the details are put in the response in every environment. *)
errorHandler_AlwaysDetails(err, env, requestId, errorId) ==
    LET appError == MappedError(err, Some("handler"))
        errorResponse == [status |-> "error", statusCode |-> appError.statusCode,
                          errorId |-> errorId, message |-> appError.message,
                          code |-> appError.errorCode]
        withRequestId == IF IsSet(requestId)
                         THEN ("requestId" :> requestId) @@ errorResponse
                         ELSE errorResponse
        withDetails == ("details" :> appError.details) @@ withRequestId
        withStack == IF env # "production"
                     THEN ("stack" :> err.stack) @@ withDetails
                     ELSE withDetails
    IN  [op |-> "handle", status |-> appError.statusCode, body |-> Json(withStack)]

(* errorHandler: the status and the JSON body of the response. *)
errorHandler(err, env, requestId, errorId) ==
    LET appError == MappedError(err, Some("handler"))
        errorResponse == [status |-> "error", statusCode |-> appError.statusCode,
                          errorId |-> errorId, message |-> appError.message,
                          code |-> appError.errorCode]
        withRequestId == IF IsSet(requestId)
                         THEN ("requestId" :> requestId) @@ errorResponse
                         ELSE errorResponse
        withDetails == IF env # "production" \/ InstanceOfValidationError(appError)
                       THEN ("details" :> appError.details) @@ withRequestId
                       ELSE withRequestId
        withStack == IF env # "production"
                     THEN ("stack" :> err.stack) @@ withDetails
                     ELSE withDetails
    IN  [op |-> "handle", status |-> appError.statusCode, body |-> Json(withStack)]

-----------------------------------------------------------------------------
(* Specification of the error handler alone: any error of the universe, *)
(* any NODE_ENV, with or without an x-request-id header; one call.      *)

Stacks == {Some("at a"), Some("at b")}
Details == {Null, Some([orderId |-> "o1"]), Some([orderId |-> "o2"])}
ErrorCodes == {Null, Some("ORDER_NOT_FOUND")}
Messages == {Null, <<"Order not found">>}
PrismaCodes == {"P2002", "P2025", "P2003", "P2000", "P2004", "P2034"}
ZodIssues ==
    {<<>>,
     <<[path |-> <<"items", "quantity">>, message |-> "Required",
        code |-> "invalid_type"]>>}
NodeEnvs == {"production", "development", "test"}
ErrorIds == 1..MaxErrorIds

AppErrors ==
    UNION {{BadRequestError(m, c, d, s), ValidationError(m, c, d, s),
            UnauthorizedError(m, c, d, s), ForbiddenError(m, c, d, s),
            NewNotFoundError(m, c, d, s), ConflictError(m, c, d, s),
            RateLimitError(m, c, d, s), InternalServerError(m, c, d, s),
            ExternalServiceError(m, c, d, s), ServiceUnavailableError(m, c, d, s),
            AppError("AppError", OrMessage(m, "I am a teapot"), 418, c, d, TRUE, s)} :
           m \in Messages, c \in ErrorCodes, d \in Details, s \in Stacks}

ErrorUniverse ==
    AppErrors
    \cup {PrismaClientKnownRequestError(c, t, s) :
            c \in PrismaCodes, t \in {<<>>, <<"email">>}, s \in Stacks}
    \cup {ZodError(e, s) : e \in ZodIssues, s \in Stacks}
    \cup {PlainError(m, s) : m \in {<<>>, <<"boom">>}, s \in Stacks}

InitError ==
    /\ NoLedger
    /\ rules = {}
    /\ now = 0
    /\ call \in [op : {"handle"}, err : ErrorUniverse, env : NodeEnvs,
                 requestId : {Null, Some("req-1")}]
    /\ ret = NoReturn

HandleError(errorId) ==
    /\ call.op = "handle"
    /\ ret = NoReturn
    /\ ret' = errorHandler(call.err, call.env, call.requestId, errorId)
    /\ UNCHANGED <<rules, now, call, ledger, payouts, inflight>>

NextError == \E errorId \in ErrorIds : HandleError(errorId)

SpecError == InitError /\ [][NextError]_vars

-----------------------------------------------------------------------------
(* Properties of calculateCommission, under SpecCalc. *)

CalcDone == call.op = "calculate" /\ ret.kind = "ok"
CalcRule == CHOOSE r \in rules : TRUE
CalcSum == ret.platformFee + ret.creatorCommission + ret.paymentFee + ret.sellerTake

(* What the rule asks for before any clamp, from the inputs of the call. *)
AskedPlatformFee == (call.item.subtotal * CalcRule.platformFeePercent) \div 100
AskedPaymentFee == (call.item.subtotal * call.feePerMille) \div 1000
AskedPercentage == (call.item.subtotal * CalcRule.creatorPercent) \div 100
AskedCommission ==
    LET raised == IF IsSet(CalcRule.minCommission)
                     /\ AskedPercentage < Val(CalcRule.minCommission)
                  THEN Val(CalcRule.minCommission) ELSE AskedPercentage
    IN  IF IsSet(CalcRule.maxCommission) /\ raised > Val(CalcRule.maxCommission)
        THEN Val(CalcRule.maxCommission) ELSE raised
NaiveSellerTake ==
    call.item.subtotal - AskedPlatformFee - AskedCommission - AskedPaymentFee
Max0(x) == IF x < 0 THEN 0 ELSE x

ScenarioA ==
    /\ call.item.subtotal = Money(10000)
    /\ CalcRule.platformFeePercent = 5
    /\ CalcRule.creatorPercent = 10
    /\ CalcRule.minCommission = Null
    /\ CalcRule.maxCommission = Null
    /\ call.feePerMille = DefaultPaymentFeePerMille

ScenarioB ==
    /\ call.item.subtotal = Money(1000)
    /\ CalcRule.platformFeePercent = 50
    /\ CalcRule.creatorPercent = 60
    /\ CalcRule.minCommission = Null
    /\ CalcRule.maxCommission = Null
    /\ call.feePerMille = DefaultPaymentFeePerMille

C9_NegativeSellerTakeClamp ==
    (call.op = "calculate" /\ ret # NoReturn /\ NaiveSellerTake < 0) =>
        /\ ret.kind = "ok"
        /\ ret.platformFee = AskedPlatformFee
        /\ ret.paymentFee = AskedPaymentFee
        /\ ret.creatorCommission =
              Max0(ret.subtotal - ret.platformFee - ret.paymentFee)
        /\ ret.sellerTake =
              Max0(ret.subtotal - ret.platformFee - ret.creatorCommission
                   - ret.paymentFee)
        /\ (ScenarioB => ret.creatorCommission = 471000 /\ ret.sellerTake = 0)

C9_Witness ==
    /\ CalcDone
    /\ ScenarioB
    /\ NaiveSellerTake < 0
    /\ ret.creatorCommission = 471000

(* C10: when the naive seller take is not negative, calculate returns the *)
(* percentages of the subtotal, the commission raised to minCommission    *)
(* and then lowered to maxCommission, the payment fee at the given rate   *)
(* and what is left as the seller take; 100.00 at 5% / 10% / 2.9% gives   *)
(* 5.00, 10.00, 2.90 and 82.10.                                           *)
C10_PlainSplit ==
    (call.op = "calculate" /\ ret # NoReturn /\ NaiveSellerTake >= 0) =>
        /\ ret.kind = "ok"
        /\ ret.platformFee = AskedPlatformFee
        /\ ret.creatorCommission = AskedCommission
        /\ ret.paymentFee = AskedPaymentFee
        /\ ret.sellerTake = ret.subtotal - ret.platformFee
                                - ret.creatorCommission - ret.paymentFee
        /\ (ScenarioA => /\ ret.platformFee = 500000
                         /\ ret.creatorCommission = 1000000
                         /\ ret.paymentFee = 290000
                         /\ ret.sellerTake = 8210000)

C10_Witness ==
    /\ CalcDone
    /\ NaiveSellerTake >= 0
    /\ IsSet(CalcRule.minCommission)
    /\ AskedPercentage < Val(CalcRule.minCommission)
    /\ ret.creatorCommission = Val(CalcRule.minCommission)

(* C32: for a non-negative subtotal, non-negative percentages and        *)
(* non-negative caps, the four amounts returned by calculate are all      *)
(* non-negative and the creator commission does not exceed maxCommission  *)
(* when the rule sets one, also when minCommission is above maxCommission *)
(* and when the negative-seller-take clamp applies.                       *)
C32_NonNegativeAndCapped ==
    CalcDone =>
        /\ ret.platformFee >= 0
        /\ ret.creatorCommission >= 0
        /\ ret.paymentFee >= 0
        /\ ret.sellerTake >= 0
        /\ IsSet(CalcRule.maxCommission) =>
              ret.creatorCommission <= Val(CalcRule.maxCommission)

(* The rule's minimum is above its maximum, the clamp has applied and has *)
(* left a positive commission below the maximum.                          *)
C32_Witness ==
    /\ CalcDone
    /\ IsSet(CalcRule.minCommission)
    /\ IsSet(CalcRule.maxCommission)
    /\ Val(CalcRule.minCommission) > Val(CalcRule.maxCommission)
    /\ AskedCommission = Val(CalcRule.maxCommission)
    /\ ret.warned
    /\ ret.creatorCommission > 0
    /\ ret.creatorCommission < Val(CalcRule.maxCommission)

-----------------------------------------------------------------------------
(* Properties of errorHandler, under SpecError. *)

Handled == call.op = "handle" /\ ret.op = "handle"

(* The HTTP status each kind of error is to be answered with. *)
StatusOf(err) ==
    IF err.kind = "AppError" THEN err.statusCode
    ELSE IF err.kind = "Prisma"
    THEN CASE err.code = "P2002" -> 409
           [] err.code = "P2025" -> 404
           [] err.code \in {"P2003", "P2000", "P2004"} -> 400
           [] OTHER -> 500
    ELSE IF err.kind = "Zod" THEN 400
    ELSE 500

(* C38: errorHandler answers every error with the HTTP status of the    *)
(* AppError it maps to: an AppError keeps its own statusCode, Prisma    *)
(* P2002 gives 409, P2025 gives 404, P2003, P2000 and P2004 give 400,   *)
(* any other Prisma known-request error 500, a ZodError 400 and any     *)
(* other error 500; the statusCode of the JSON body is the status of    *)
(* the response.                                                        *)
C38_StatusOfMappedError ==
    Handled =>
        /\ ret.status = StatusOf(call.err)
        /\ ret.body.statusCode = ret.status
        /\ ret.body.status = "error"

(* A Prisma P2025 error was answered with 404. *)
C38_Witness ==
    /\ Handled
    /\ call.err.kind = "Prisma"
    /\ call.err.code = "P2025"
    /\ ret.status = 404
    /\ ret.body.statusCode = 404

(* The error is mapped to a ValidationError. *)
MapsToValidationError(err) ==
    InstanceOfValidationError(MappedError(err, Some("handler")))

(* The error without what may tell two failures apart: details, stack. *)
Undetailed(err) ==
    IF err.kind = "AppError"
    THEN [err EXCEPT !.details = Null, !.stack = Null]
    ELSE [err EXCEPT !.stack = Null]

DifferOnlyInDetailsOrStack(e1, e2) ==
    /\ e1.kind = e2.kind
    /\ Undetailed(e1) = Undetailed(e2)

(* C39: when NODE_ENV is production the response holds no stack, and    *)
(* holds details only when the mapped error is a ValidationError; two   *)
(* requests failing with errors that are not validation errors and      *)
(* differ only in details or stack are answered alike but for errorId.  *)
C39_ProductionResponse ==
    (Handled /\ call.env = "production") =>
        /\ "stack" \notin DOMAIN ret.body
        /\ "details" \in DOMAIN ret.body => MapsToValidationError(call.err)
        /\ ~MapsToValidationError(call.err) =>
              \A e2 \in ErrorUniverse, id \in ErrorIds :
                  DifferOnlyInDetailsOrStack(call.err, e2) =>
                      LET r2 == errorHandler(e2, call.env, call.requestId, id)
                      IN  /\ r2.status = ret.status
                          /\ DOMAIN r2.body = DOMAIN ret.body
                          /\ \A k \in DOMAIN ret.body \ {"errorId"} :
                                r2.body[k] = ret.body[k]

(* In production a NotFoundError carrying details was answered without *)
(* them, and the universe holds the same error with other details and  *)
(* another stack.                                                      *)
C39_Witness ==
    /\ Handled
    /\ call.env = "production"
    /\ call.err.kind = "AppError"
    /\ call.err.class = "NotFoundError"
    /\ IsSet(call.err.details)
    /\ "details" \notin DOMAIN ret.body
    /\ "stack" \notin DOMAIN ret.body
    /\ \E e2 \in ErrorUniverse :
          /\ DifferOnlyInDetailsOrStack(call.err, e2)
          /\ IsSet(e2.details)
          /\ e2.details # call.err.details
          /\ e2.stack # call.err.stack

-----------------------------------------------------------------------------
(* Properties of findApplicableCommissionRule, under SpecResolve. *)

TierRank(type) ==
    CASE type = "CAMPAIGN" -> 1
      [] type = "SKU" -> 2
      [] type = "PRODUCT" -> 3
      [] type = "DEFAULT" -> 4

(* An active rule of the item's organization, inside its window, whose *)
(* scope is the campaign given, the item's SKU or product, or DEFAULT. *)
Eligible(r, item, campaignId, t) ==
    /\ r.organizationId = item.organizationId
    /\ r.isActive
    /\ r.startDate <= t /\ t <= r.endDate
    /\ CASE r.type = "CAMPAIGN" -> campaignId # NoId /\ r.campaignId = campaignId
         [] r.type = "SKU" -> r.skuId = item.skuId
         [] r.type = "PRODUCT" -> r.productId = item.productId
         [] r.type = "DEFAULT" -> TRUE

(* C7: the rule returned by resolve is of the highest tier, in the order *)
(* CAMPAIGN, SKU, PRODUCT, DEFAULT, at which the item has an active      *)
(* in-window rule: no rule of a lower tier is returned.                  *)
C7_PriorityOrder ==
    (call.op = "resolve" /\ ret.kind = "ok") =>
        \A r \in rules :
            Eligible(r, call.item, call.campaignId, now)
                => TierRank(ret.rule.type) <= TierRank(r.type)

(* The CAMPAIGN rule was returned although a DEFAULT rule is in force. *)
C7_Witness ==
    /\ call.op = "resolve"
    /\ ret.kind = "ok"
    /\ ret.rule.type = "CAMPAIGN"
    /\ \E r \in rules : r.type = "DEFAULT" /\ Eligible(r, call.item, call.campaignId, now)
    /\ \E r \in rules : r.type = "SKU" /\ Eligible(r, call.item, call.campaignId, now)

(* C31: every rule returned by resolve is a rule of the order's           *)
(* organization, is active, has the current time inside [startDate,       *)
(* endDate] with both bounds included, and has the type of the tier that  *)
(* matched with its reference equal to the campaignId supplied, the       *)
(* item's SKU or the product of that SKU; a CAMPAIGN rule is never        *)
(* returned when no campaignId is supplied.                               *)
C31_ReturnedRuleInForce ==
    (call.op = "resolve" /\ ret.kind = "ok") =>
        LET r == ret.rule
        IN  /\ r \in rules
            /\ r.organizationId = call.item.organizationId
            /\ r.isActive
            /\ r.startDate <= now
            /\ now <= r.endDate
            /\ r.type \in {"CAMPAIGN", "SKU", "PRODUCT", "DEFAULT"}
            /\ r.type = "CAMPAIGN" =>
                  call.campaignId # NoId /\ r.campaignId = call.campaignId
            /\ r.type = "SKU" => r.skuId = call.item.skuId
            /\ r.type = "PRODUCT" => r.productId = ProductOf(call.item.skuId)
            /\ call.campaignId = NoId => r.type # "CAMPAIGN"

(* A CAMPAIGN rule was returned on the last instant of its window while   *)
(* the table also holds an expired rule, an inactive rule, a rule of the  *)
(* other campaign and a rule of the other organization.                   *)
C31_Witness ==
    /\ call.op = "resolve"
    /\ ret.kind = "ok"
    /\ ret.rule.type = "CAMPAIGN"
    /\ ret.rule.endDate = now
    /\ ret.rule.endDate < MaxTime
    /\ \E r \in rules : r.type = "PRODUCT" /\ r.endDate < now
    /\ \E r \in rules : ~r.isActive
    /\ \E r \in rules : r.type = "CAMPAIGN" /\ r.campaignId # call.campaignId
    /\ \E r \in rules : r.organizationId # call.item.organizationId

-----------------------------------------------------------------------------
(* Properties of the ledger under the running service, under Spec. *)

StatusTransitions ==
    {<<"RESERVED", "CLEARED">>, <<"CLEARED", "PAID">>,
     <<"RESERVED", "CANCELLED">>, <<"CLEARED", "CANCELLED">>}

(* C1: every ledger entry starts RESERVED and every change of its status *)
(* is RESERVED->CLEARED, CLEARED->PAID, RESERVED->CANCELLED or           *)
(* CLEARED->CANCELLED, so that PAID and CANCELLED are never left.        *)
C1_StatusMachine ==
    [][/\ \A i \in Ids(ledger') \ Ids(ledger) : ledger'[i].status = "RESERVED"
       /\ \A i \in Ids(ledger) :
             \/ ledger'[i].status = ledger[i].status
             \/ <<ledger[i].status, ledger'[i].status>> \in StatusTransitions]_vars

PayoutRuns == {s \in Slots : inflight[s].op = "payout"}

(* C3: two payout runs under way for the same creator and currency have *)
(* selected disjoint sets of entries.                                   *)
C3_DisjointSelections ==
    \A s \in PayoutRuns, r \in PayoutRuns :
        (s # r /\ inflight[s].creatorId = inflight[r].creatorId
               /\ inflight[s].currency = inflight[r].currency)
            => Range(inflight[s].selected) \cap Range(inflight[r].selected) = {}

(* C5: a markPaid call that changes the ledger had only CLEARED entries *)
(* as its targets: with any other target it fails and changes nothing.  *)
C5_MarkPaidOnlyCleared ==
    [][(ledger' # ledger /\ ret'.op = "markPaid") =>
          \A i \in ret'.entries : ledger[i].status = "CLEARED"]_vars

OrderEntries(led, orderId) == {i \in Ids(led) : led[i].orderId = orderId}

(* C12: a status-transition request that targets an entry in a terminal   *)
(* or inconsistent state ends with a Conflict error: markPaid with an     *)
(* entry that is PAID or CANCELLED, cancel of a PAID entry, clear of an   *)
(* order all of whose entries are CANCELLED or PAID.                      *)
C12_InvalidTransitionConflicts ==
    [][/\ \A ids \in IdLists(ledger), p \in PayoutIds, f \in 0..1 :
             (/\ MarkPaid(ids, p, f)
              /\ \E n \in 1..Len(ids) :
                    /\ ids[n] \in Ids(ledger)
                    /\ ledger[ids[n]].status \in {"PAID", "CANCELLED"})
             => ret'.kind = "Conflict"
       /\ \A s \in Slots, f \in 0..1 :
             (/\ CancelUpdate(s, f)
              /\ \E i \in Range(inflight[s].selected) : ledger[i].status = "PAID")
             => ret'.kind = "Conflict"
       /\ \A o \in Orders :
             (/\ ClearSelect(o)
              /\ OrderEntries(ledger, o) # {}
              /\ \A i \in OrderEntries(ledger, o) :
                    ledger[i].status \in {"CANCELLED", "PAID"})
             => ret'.kind = "Conflict"]_vars

(* C13: markPaid for the payout an entry is already PAID under raises no *)
(* error and leaves the entry's status, payoutId and paidAt as they were. *)
C13_MarkPaidIdempotent ==
    [][\A ids \in IdLists(ledger), p \in PayoutIds :
          (/\ MarkPaid(ids, p, 0)
           /\ \A n \in 1..Len(ids) :
                 /\ ids[n] \in Ids(ledger)
                 /\ ledger[ids[n]].status = "PAID"
                 /\ ledger[ids[n]].payoutId = Some(p))
          => /\ ret'.kind = "ok"
             /\ \A n \in 1..Len(ids) :
                   /\ ledger'[ids[n]].status = ledger[ids[n]].status
                   /\ ledger'[ids[n]].payoutId = ledger[ids[n]].payoutId
                   /\ ledger'[ids[n]].paidAt = ledger[ids[n]].paidAt]_vars

(* The entry but for its status and the timestamp of that status. *)
ClearedFrom(e, e2) ==
    /\ e2.status = "CLEARED"
    /\ IsSet(e2.clearedAt)
    /\ e2 = [e EXCEPT !.status = "CLEARED", !.clearedAt = e2.clearedAt]

(* C14: clear(orderId) changes exactly the entries of the order that are   *)
(* RESERVED, sets each to CLEARED with clearedAt stamped and returns them; *)
(* every other entry is unchanged; without a RESERVED entry the call       *)
(* returns an empty result and changes nothing.                            *)
C14_ClearFrame ==
    [][/\ \A s \in Slots, k \in 0..(4 * MaxSplits), f \in 0..1 :
             (ClearUpdate(s, k, f) /\ ret'.kind = "ok") =>
                 LET reserved == {i \in Ids(ledger) :
                                     /\ ledger[i].orderId = inflight[s].orderId
                                     /\ ledger[i].status = "RESERVED"}
                 IN  /\ ret'.entries = reserved
                     /\ Ids(ledger') = Ids(ledger)
                     /\ \A i \in reserved : ClearedFrom(ledger[i], ledger'[i])
                     /\ \A i \in Ids(ledger) \ reserved : ledger'[i] = ledger[i]
       /\ \A o \in Orders :
             (/\ ClearSelect(o)
              /\ \A i \in OrderEntries(ledger, o) : ledger[i].status # "RESERVED")
             => /\ ret'.op = "clear"
                /\ ret'.kind = "ok"
                /\ ret'.entries = {}
                /\ ledger' = ledger]_vars

(* C15: the entries transitioned by one clear(orderId) call all carry the *)
(* same clearedAt, whatever the clock does while the call runs.           *)
C15_SingleClearedAt ==
    [][\A s \in Slots, k \in 0..(4 * MaxSplits), f \in 0..1 :
          (ClearUpdate(s, k, f) /\ ret'.kind = "ok") =>
              \A i \in ret'.entries, j \in ret'.entries :
                  ledger'[i].clearedAt = ledger'[j].clearedAt]_vars

CancelKeys == {"cancellationReason", "cancelledAt"}

(* The entry but for its status and the cancellation keys of its metadata. *)
CancelledFrom(e, e2, reason) ==
    /\ e2.status = "CANCELLED"
    /\ DOMAIN e2.metadata = DOMAIN e.metadata \cup CancelKeys
    /\ e2.metadata.cancellationReason = reason
    /\ \A key \in DOMAIN e.metadata \ CancelKeys : e2.metadata[key] = e.metadata[key]
    /\ e2 = [e EXCEPT !.status = "CANCELLED", !.metadata = e2.metadata]

(* C16: cancel(orderId, reason) sets every non-CANCELLED entry of the order *)
(* to CANCELLED and adds the reason and the cancellation time to its        *)
(* metadata, keeping the keys it had; entries of other orders and entries   *)
(* already CANCELLED are unchanged; the result is empty when nothing is     *)
(* left to cancel.                                                          *)
C16_CancelFrame ==
    [][/\ \A s \in Slots, f \in 0..1 :
             (CancelUpdate(s, f) /\ ret'.kind = "ok") =>
                 LET active == {i \in Ids(ledger) :
                                   /\ ledger[i].orderId = inflight[s].orderId
                                   /\ ledger[i].status # "CANCELLED"}
                 IN  /\ ret'.entries = active
                     /\ Ids(ledger') = Ids(ledger)
                     /\ \A i \in active :
                           CancelledFrom(ledger[i], ledger'[i], inflight[s].reason)
                     /\ \A i \in Ids(ledger) \ active : ledger'[i] = ledger[i]
       /\ \A o \in Orders, r \in Reasons :
             (/\ CancelSelect(o, r)
              /\ \A i \in OrderEntries(ledger, o) : ledger[i].status = "CANCELLED")
             => /\ ret'.op = "cancel"
                /\ ret'.kind = "ok"
                /\ ret'.entries = {}
                /\ ledger' = ledger]_vars

(* C17: the amount, currency, entryType, orderId and orderItemId of an  *)
(* entry never change after its creation, and no entry is ever removed  *)
(* from the ledger.                                                     *)
C17_WriteOnceAndNeverDeleted ==
    [][\A i \in Ids(ledger) :
          /\ i \in Ids(ledger')
          /\ ledger'[i].id = ledger[i].id
          /\ ledger'[i].amount = ledger[i].amount
          /\ ledger'[i].currency = ledger[i].currency
          /\ ledger'[i].entryType = ledger[i].entryType
          /\ ledger'[i].orderId = ledger[i].orderId
          /\ ledger'[i].orderItemId = ledger[i].orderItemId]_vars

(* The commission of 10.00 on item i1 has been cleared, paid and cancelled. *)
C17_Witness ==
    \E i \in Ids(ledger) :
        /\ ledger[i].entryType = "COMMISSION"
        /\ ledger[i].orderItemId = "i1"
        /\ ledger[i].status = "CANCELLED"
        /\ IsSet(ledger[i].clearedAt)
        /\ IsSet(ledger[i].paidAt)
        /\ ledger[i].amount = Money(1000)
        /\ ledger[i].currency = "MYR"

(* C26: when the database fails during the four-entry write or during a *)
(* bulk status transition, the operation ends with an Internal error     *)
(* that carries the order id (and, for the four-entry write, the order   *)
(* item id), and none of its writes is committed.                        *)
C26_PersistenceFailure ==
    [][/\ \A o \in Orders, f \in 1..4 :
             \A n \in 1..Len(OrderItems(o)) :
                 RecordSaleSplit(o, n, OrderCreator(o), f) =>
                     /\ ret'.kind = "Internal"
                     /\ ledger' = ledger
                     /\ "orderItemId" \in DOMAIN ret'.details
                     /\ ret'.details.orderItemId = OrderItems(o)[n].id
                     /\ "orderId" \in DOMAIN ret'.details
                     /\ ret'.details.orderId = o
       /\ \A s \in Slots, k \in 0..(4 * MaxSplits) :
             ClearUpdate(s, k, 1) =>
                 /\ ret'.kind = "Internal"
                 /\ ledger' = ledger
                 /\ "orderId" \in DOMAIN ret'.details
                 /\ ret'.details.orderId = inflight[s].orderId
       /\ \A s \in Slots :
             CancelUpdate(s, 1) =>
                 /\ ret'.kind = "Internal"
                 /\ ledger' = ledger
                 /\ "orderId" \in DOMAIN ret'.details
                 /\ ret'.details.orderId = inflight[s].orderId
       /\ \A ids \in IdLists(ledger), p \in PayoutIds :
             MarkPaid(ids, p, 1) =>
                 /\ ret'.kind = "Internal"
                 /\ ledger' = ledger]_vars

(* C35: in every reachable state an entry that is CLEARED has clearedAt *)
(* set, an entry that is PAID has clearedAt, paidAt and payoutId set,   *)
(* and an entry that is RESERVED has none of the three set.             *)
C35_StatusFields ==
    \A i \in Ids(ledger) :
        /\ ledger[i].status = "CLEARED" => IsSet(ledger[i].clearedAt)
        /\ ledger[i].status = "PAID" =>
              /\ IsSet(ledger[i].clearedAt)
              /\ IsSet(ledger[i].paidAt)
              /\ IsSet(ledger[i].payoutId)
        /\ ledger[i].status = "RESERVED" =>
              /\ ledger[i].clearedAt = Null
              /\ ledger[i].paidAt = Null
              /\ ledger[i].payoutId = Null

(* C36: clearedAt, paidAt and payoutId are write-once: once one of them *)
(* is set on an entry, no step of a clear, cancel or markPaid call,      *)
(* later or concurrent, changes its value.                               *)
C36_WriteOnceStamps ==
    [][\A i \in Ids(ledger) :
          /\ i \in Ids(ledger')
          /\ IsSet(ledger[i].clearedAt) => ledger'[i].clearedAt = ledger[i].clearedAt
          /\ IsSet(ledger[i].paidAt) => ledger'[i].paidAt = ledger[i].paidAt
          /\ IsSet(ledger[i].payoutId) => ledger'[i].payoutId = ledger[i].payoutId]_vars

-----------------------------------------------------------------------------
(* Properties of order processing, under SpecProcess. *)

CountOf(led, itemId, type) ==
    Cardinality({i \in Ids(led) :
                    led[i].orderItemId = itemId /\ led[i].entryType = type})

ItemIds == {"i1", "i2", "i3"}

(* C4: in every state the SALE, PLATFORM_FEE, COMMISSION and PAYMENT_FEE *)
(* entries of each split are all there or all absent (each order item    *)
(* has as many of one type as of any other), and entries are created     *)
(* RESERVED.                                                             *)
C4_AtomicSplit ==
    /\ [](\A it \in ItemIds :
            /\ CountOf(ledger, it, "SALE") = CountOf(ledger, it, "PLATFORM_FEE")
            /\ CountOf(ledger, it, "SALE") = CountOf(ledger, it, "COMMISSION")
            /\ CountOf(ledger, it, "SALE") = CountOf(ledger, it, "PAYMENT_FEE")
            /\ Len(ledger) = 4 * (CountOf(ledger, "i1", "SALE")
                                  + CountOf(ledger, "i2", "SALE")
                                  + CountOf(ledger, "i3", "SALE")))
    /\ [][\A i \in Ids(ledger') \ Ids(ledger) : ledger'[i].status = "RESERVED"]_vars

(* A write of four entries failed after another split was committed. *)
C4_Witness ==
    /\ ret.op = "process"
    /\ ret.kind = "Internal"
    /\ Len(ledger) = 4

(* The item a processOrderCommissions call is about to handle. *)
NextItem(s) == OrderItems(inflight[s].orderId)[inflight[s].idx]

(* C8: when no active in-window rule matches the item at any tier, the  *)
(* turn of order processing for it ends the call with NotFound and      *)
(* writes no ledger entry.                                              *)
C8_NotFoundWritesNothing ==
    [][\A s \in Slots :
          (/\ inflight[s].op = "process"
           /\ inflight'[s] # inflight[s]
           /\ \A r \in rules : ~Eligible(r, NextItem(s), inflight[s].campaignId, now))
          => /\ ret'.op = "process"
             /\ ret'.kind = "NotFound"
             /\ ret'.code = "COMMISSION_RULE_NOT_FOUND"
             /\ inflight'[s] = Idle
             /\ ledger' = ledger]_vars

(* The second item of an order had no rule after the first was written. *)
C8_Witness ==
    /\ ret.op = "process"
    /\ ret.kind = "NotFound"
    /\ ret.code = "COMMISSION_RULE_NOT_FOUND"
    /\ ret.orderItemId = "i2"
    /\ Len(ledger) = 4

(* The entries a call has written for the item at position j of its order. *)
WrittenFor(led, c, j) ==
    {i \in c.entries \cap Ids(led) :
        led[i].orderItemId = OrderItems(c.orderId)[j].id}

(* C33: one processOrderCommissions call commits item by item: when it   *)
(* fails at the k-th item, the failing turn writes nothing and takes     *)
(* nothing back, every earlier item keeps the four entries (one of each  *)
(* type) the call wrote for it, and the call has written no entry for    *)
(* the k-th and the later items.                                         *)
C33_ItemByItemCommit ==
    [][\A s \in Slots :
          (/\ inflight[s].op = "process"
           /\ inflight'[s] = Idle
           /\ ret'.kind # "ok")
          => LET c == inflight[s]
             IN  /\ ledger' = ledger
                 /\ c.entries \subseteq Ids(ledger')
                 /\ \A j \in 1..Len(OrderItems(c.orderId)) :
                       IF j < c.idx
                       THEN /\ Cardinality(WrittenFor(ledger', c, j)) = 4
                            /\ \A type \in {"SALE", "PLATFORM_FEE", "COMMISSION",
                                             "PAYMENT_FEE"} :
                                  \E i \in WrittenFor(ledger', c, j) :
                                      ledger'[i].entryType = type
                       ELSE WrittenFor(ledger', c, j) = {}]_vars

(* The write for the second item of an order was rejected and the four *)
(* entries of the first item are the whole ledger.                     *)
C33_Witness ==
    /\ ret.op = "process"
    /\ ret.kind = "Internal"
    /\ ret.orderItemId = "i2"
    /\ Len(ledger) = 4
    /\ \A i \in Ids(ledger) : ledger[i].orderItemId = "i1"
    /\ \A s \in Slots : inflight[s] = Idle

NoCreator(campaignId) == campaignId \in {NoId, MissingCampaign}

(* C25, as stated: a processing call without creatorId and without a   *)
(* campaign to derive it from ends with a Validation error, starts no  *)
(* calculation and writes no entry.                                    *)
C25_CreatorRequired ==
    [][\A o \in Orders \cup {MissingOrder}, k \in {NoId, "k1", MissingCampaign} :
          (ProcessStart(o, k, NoId) /\ NoCreator(k)) =>
              /\ ret'.op = "process"
              /\ ret'.kind = "Validation"
              /\ ret'.code = "CREATOR_ID_REQUIRED"
              /\ inflight' = inflight
              /\ ledger' = ledger]_vars

(* C25, amended: for an order that exists, such a call ends with a      *)
(* Validation error; for an order that does not, with NotFound; in both *)
(* cases it starts no calculation and writes no entry.                  *)
C25_CreatorRequiredOfExistingOrder ==
    [][\A o \in Orders \cup {MissingOrder}, k \in {NoId, "k1", MissingCampaign} :
          (ProcessStart(o, k, NoId) /\ NoCreator(k)) =>
              /\ ret'.op = "process"
              /\ IF o = MissingOrder
                 THEN ret'.kind = "NotFound" /\ ret'.code = "ORDER_NOT_FOUND"
                 ELSE ret'.kind = "Validation" /\ ret'.code = "CREATOR_ID_REQUIRED"
              /\ inflight' = inflight
              /\ ledger' = ledger]_vars

(* A call without creator was refused after another order was processed. *)
C25_Witness ==
    /\ ret.op = "process"
    /\ ret.kind = "Validation"
    /\ ret.code = "CREATOR_ID_REQUIRED"
    /\ ret.orderId = "o1"
    /\ Len(ledger) = 4
    /\ \A i \in Ids(ledger) : ledger[i].orderId = "o2"
    /\ \A s \in Slots : inflight[s] = Idle

(* C28: after any sequence of processing calls the ledger holds at most *)
(* one SALE, one PLATFORM_FEE, one COMMISSION and one PAYMENT_FEE entry  *)
(* per order item.                                                       *)
C28_AtMostOneSplitPerItem ==
    \A it \in ItemIds, type \in {"SALE", "PLATFORM_FEE", "COMMISSION", "PAYMENT_FEE"} :
        CountOf(ledger, it, type) <= 1

-----------------------------------------------------------------------------
(* Properties of the seed script, under SpecSeed. *)

(* C6: the creation of a payout changes the status of no ledger entry. *)
C6_PayoutCreationKeepsStatus ==
    [][Len(payouts') > Len(payouts) =>
          \A i \in Ids(ledger) : ledger'[i].status = ledger[i].status]_vars

(* C21: every payout is created with status PROCESSING; a settled status *)
(* is never set at creation time.                                        *)
C21_PayoutCreatedProcessing ==
    [][\A n \in (Len(payouts) + 1)..Len(payouts') :
          payouts'[n].status = "PROCESSING"]_vars

-----------------------------------------------------------------------------
(* Properties of the recorded split, under SpecRecord. *)

AmountOf(led, itemId, type) ==
    LET i == CHOOSE x \in Ids(led) :
                 led[x].orderItemId = itemId /\ led[x].entryType = type
    IN  led[i].amount

Recorded(led, itemId) == CountOf(led, itemId, "SALE") > 0

ImplicitSellerTake(led, itemId) ==
    AmountOf(led, itemId, "SALE") - AmountOf(led, itemId, "PLATFORM_FEE")
        - AmountOf(led, itemId, "COMMISSION") - AmountOf(led, itemId, "PAYMENT_FEE")

-----------------------------------------------------------------------------
(* Properties of getPendingCreatorCommissions, under SpecPending. *)

PendingDone == call.op = "pending" /\ ret.op = "pending"

(* C18: the query returns exactly the COMMISSION entries that are CLEARED, *)
(* of the given creator and, when a currency is given, in that currency,   *)
(* each once, by createdAt ascending; none is RESERVED, PAID or CANCELLED.  *)
C18_ClearedCommissionsOfCreator ==
    PendingDone =>
        LET c == ret.commissions
        IN  /\ Range(c) = {i \in Ids(ledger) :
                              /\ ledger[i].entryType = "COMMISSION"
                              /\ ledger[i].status = "CLEARED"
                              /\ ledger[i].metadata.creatorId = call.creatorId
                              /\ (call.currency # NoId =>
                                     ledger[i].currency = call.currency)}
            /\ \A m \in 1..Len(c), n \in 1..Len(c) :
                  /\ (m # n => c[m] # c[n])
                  /\ (m < n => ledger[c[m]].createdAt <= ledger[c[n]].createdAt)
            /\ \A n \in 1..Len(c) :
                  ledger[c[n]].status \notin {"RESERVED", "PAID", "CANCELLED"}

(* Two entries were returned, the later row of the table first, while a *)
(* commission of the same creator that is not CLEARED was left out.     *)
C18_Witness ==
    /\ PendingDone
    /\ call.currency = "MYR"
    /\ Len(ret.commissions) = 2
    /\ ret.commissions[1] > ret.commissions[2]
    /\ ledger[ret.commissions[1]].createdAt < ledger[ret.commissions[2]].createdAt
    /\ \E i \in Ids(ledger) :
          /\ ledger[i].entryType = "COMMISSION"
          /\ ledger[i].metadata.creatorId = call.creatorId
          /\ ledger[i].currency = "MYR"
          /\ ledger[i].status # "CLEARED"

-----------------------------------------------------------------------------
(* Properties of payout creation, under SpecPayout. *)

PayoutsOf(creatorId, currency) ==
    {n \in 1..Len(payouts) :
        payouts[n].recipient = creatorId /\ payouts[n].currency = currency}

LinkedTo(led, payoutId) == {i \in Ids(led) : led[i].payoutId = Some(payoutId)}

(* The CLEARED commissions of a creator in a currency not yet in a payout. *)
Payable(led, creatorId, currency) ==
    {i \in Ids(led) :
        /\ led[i].entryType = "COMMISSION"
        /\ led[i].status = "CLEARED"
        /\ led[i].payoutId = Null
        /\ led[i].metadata.creatorId = creatorId
        /\ led[i].currency = currency}

(* C19: payout processing makes one payout per creator and currency that *)
(* has CLEARED commissions, of all of them; its amount is the sum of the *)
(* amounts of its entries and its fee is 1% of its amount.               *)
C19_OnePayoutPerCurrency ==
    /\ \A u \in Creators, cur \in SeedCurrencies :
          /\ Cardinality(PayoutsOf(u, cur)) <= 1
          /\ (PayoutsOf(u, cur) # {} <=> <<u, cur>> \in call.done)
          /\ (PayoutsOf(u, cur) # {} => Payable(ledger, u, cur) = {})
    /\ \A n \in 1..Len(payouts) :
          LET p == payouts[n]
              linked == LinkedTo(ledger, p.id)
          IN  /\ linked # {}
              /\ \A i \in linked :
                    /\ ledger[i].entryType = "COMMISSION"
                    /\ ledger[i].metadata.creatorId = p.recipient
                    /\ ledger[i].currency = p.currency
              /\ p.amount = SumAmounts(ledger, linked)
              /\ p.fee * 100 = p.amount
              /\ p.metadata.entryCount = Cardinality(linked)

(* Scenario D: three CLEARED commissions of 10.00, 20.00 and 30.00 in one *)
(* currency gave one payout of 60.00 with a fee of 0.60.                  *)
C19_Witness ==
    /\ Len(payouts) = 1
    /\ payouts[1].amount = Money(6000)
    /\ payouts[1].fee = Money(60)
    /\ {ledger[i].amount : i \in LinkedTo(ledger, payouts[1].id)}
           = {Money(1000), Money(2000), Money(3000)}
    /\ \A u \in Creators, cur \in SeedCurrencies : Payable(ledger, u, cur) = {}

(* C29: the metadata of each payout records the number of entries of its *)
(* group and, as period bounds, the least and the greatest createdAt      *)
(* among those entries, in whatever order they were fetched.              *)
C29_PayoutPeriodBounds ==
    \A n \in 1..Len(payouts) :
        LET p == payouts[n]
            linked == LinkedTo(ledger, p.id)
        IN  /\ p.metadata.entryCount = Cardinality(linked)
            /\ \A i \in linked :
                  /\ p.metadata.periodStart <= ledger[i].createdAt
                  /\ ledger[i].createdAt <= p.metadata.periodEnd
            /\ \E i \in linked : ledger[i].createdAt = p.metadata.periodStart
            /\ \E i \in linked : ledger[i].createdAt = p.metadata.periodEnd

-----------------------------------------------------------------------------
(* Properties of markCommissionsAsPaid, under SpecSettle. *)

(* C20: a markPaid call that succeeds changes exactly the listed entries: *)
(* each becomes PAID with the payout's id as payoutId and paidAt stamped, *)
(* and nothing else of it, and no other entry, is changed.                *)
C20_MarkPaidFrame ==
    [][\A ids \in IdLists(ledger), p \in PayoutIds, f \in 0..2 :
          (ConfirmSettlement(ids, p, f) /\ ret'.kind = "ok") =>
              /\ ret'.entries = Range(ids)
              /\ Ids(ledger') = Ids(ledger)
              /\ \A i \in Range(ids) :
                    /\ ledger'[i].status = "PAID"
                    /\ ledger'[i].payoutId = Some(p)
                    /\ ledger'[i].paidAt = Some(now)
                    /\ ledger'[i] = [ledger[i] EXCEPT !.status = "PAID",
                                                      !.payoutId = Some(p),
                                                      !.paidAt = Some(now)]
              /\ \A i \in Ids(ledger) \ Range(ids) : ledger'[i] = ledger[i]]_vars

(* Two of three CLEARED commissions were marked PAID under payout 2; the *)
(* third, not listed, is still CLEARED and in no payout.                 *)
C20_Witness ==
    /\ ret.op = "markPaid"
    /\ ret.kind = "ok"
    /\ Cardinality(ret.entries) = 2
    /\ \A i \in ret.entries :
          /\ ledger[i].status = "PAID"
          /\ ledger[i].payoutId = Some(2)
          /\ IsSet(ledger[i].clearedAt)
    /\ \E j \in Ids(ledger) \ ret.entries :
          /\ ledger[j].entryType = "COMMISSION"
          /\ ledger[j].status = "CLEARED"
          /\ ledger[j].payoutId = Null

(* C34: markPaid is all-or-nothing over its id list: when the update of *)
(* any listed id fails, because the id names no row or because the      *)
(* database rejects the update, the call raises an Internal error and   *)
(* no entry, listed or not, has its status, payoutId or paidAt changed. *)
C34_MarkPaidAllOrNothing ==
    [][\A ids \in IdLists(ledger), p \in PayoutIds, f \in 0..2 :
          (/\ ConfirmSettlement(ids, p, f)
           /\ \/ f \in 1..Len(ids)
              \/ \E n \in 1..Len(ids) : ids[n] \notin Ids(ledger))
          => /\ ret'.op = "markPaid"
             /\ ret'.kind = "Internal"
             /\ ret'.code = "COMMISSION_PAYMENT_UPDATE_FAILED"
             /\ Ids(ledger') = Ids(ledger)
             /\ \A i \in Ids(ledger) :
                   /\ ledger'[i].status = ledger[i].status
                   /\ ledger'[i].payoutId = ledger[i].payoutId
                   /\ ledger'[i].paidAt = ledger[i].paidAt]_vars

(* A call has failed and every CLEARED commission, one at least, is *)
(* still in no payout and without paidAt.                           *)
C34_Witness ==
    /\ ret.op = "markPaid"
    /\ ret.kind = "Internal"
    /\ ret.details.payoutId = 2
    /\ \E i \in Ids(ledger) :
          ledger[i].entryType = "COMMISSION" /\ ledger[i].status = "CLEARED"
    /\ \A i \in Ids(ledger) :
          ledger[i].status # "PAID" /\ ledger[i].payoutId = Null /\ ledger[i].paidAt = Null

-----------------------------------------------------------------------------
(* Properties of reconcileCommissions, under SpecReconcile. *)

ReconcileDone == call.op = "reconcile" /\ ret.op = "reconcile" /\ ret.kind = "ok"

(* The COMMISSION entries of the organization created in the range asked. *)
Audited ==
    {i \in Ids(ledger) :
        /\ ledger[i].organizationId = call.organizationId
        /\ ledger[i].entryType = "COMMISSION"
        /\ call.startDate <= ledger[i].createdAt
        /\ ledger[i].createdAt <= call.endDate}

AuditedIn(statuses) == {i \in Audited : ledger[i].status \in statuses}

(* C22: reconcile returns totalCommissions = the sum of the COMMISSION    *)
(* entries in range that are not CANCELLED, totalPaid = the sum of the    *)
(* PAID ones, totalPending = the sum of the RESERVED and CLEARED ones,    *)
(* and BALANCED exactly when totalCommissions = totalPaid + totalPending, *)
(* otherwise DISCREPANCY with the signed difference.                      *)
C22_ReconcileTotals ==
    ReconcileDone =>
        /\ ret.totalCommissions =
               SumAmounts(ledger, AuditedIn({"RESERVED", "CLEARED", "PAID"}))
        /\ ret.totalPaid = SumAmounts(ledger, AuditedIn({"PAID"}))
        /\ ret.totalPending = SumAmounts(ledger, AuditedIn({"RESERVED", "CLEARED"}))
        /\ (ret.reconciliationStatus = "BALANCED"
               <=> ret.totalCommissions = ret.totalPaid + ret.totalPending)
        /\ (ret.reconciliationStatus # "BALANCED" =>
               /\ ret.reconciliationStatus = "DISCREPANCY"
               /\ ret.discrepancyAmount =
                      Some(ret.totalCommissions - ret.totalPaid - ret.totalPending))

(* C23: over a range without CANCELLED commission entries, reconcile *)
(* reports totalCommissions = totalPaid + totalPending and BALANCED.  *)
C23_BalancedWithoutCancelled ==
    (ReconcileDone /\ AuditedIn({"CANCELLED"}) = {}) =>
        /\ ret.totalCommissions = ret.totalPaid + ret.totalPending
        /\ ret.totalCommissions = SumAmounts(ledger, Audited)
        /\ ret.reconciliationStatus = "BALANCED"
        /\ ret.discrepancyAmount = Null

(* A PAID and a RESERVED commission were audited, a SALE entry of the *)
(* organization in the range was not.                                  *)
C23_Witness ==
    /\ ReconcileDone
    /\ AuditedIn({"CANCELLED"}) = {}
    /\ ret.totalPaid = Money(1000)
    /\ ret.totalPending = Money(2000)
    /\ AuditedIn({"RESERVED"}) # {}
    /\ ret.totalCommissions = Money(3000)
    /\ \E i \in Ids(ledger) :
          /\ ledger[i].entryType = "SALE"
          /\ ledger[i].organizationId = call.organizationId
          /\ ledger[i].createdAt \in call.startDate..call.endDate

(* C37: the discrepancyAmount reported by reconcile is the sum of the   *)
(* amounts of the CANCELLED commission entries of the organization in   *)
(* the range, and the status is DISCREPANCY exactly when that sum is    *)
(* not zero.                                                            *)
C37_DiscrepancyIsCancelledSum ==
    ReconcileDone =>
        LET cancelled == SumAmounts(ledger, AuditedIn({"CANCELLED"}))
        IN  /\ ret.reconciliationStatus \in {"BALANCED", "DISCREPANCY"}
            /\ ret.reconciliationStatus = "DISCREPANCY" <=> cancelled # 0
            /\ ret.reconciliationStatus = "DISCREPANCY" =>
                  ret.discrepancyAmount = Some(cancelled)
            /\ IsSet(ret.discrepancyAmount) => Val(ret.discrepancyAmount) = cancelled

(* Two CANCELLED commissions of 10.00 and 40.00 were audited next to a *)
(* commission that is not CANCELLED, and 50.00 was reported.           *)
C37_Witness ==
    /\ ReconcileDone
    /\ Cardinality(AuditedIn({"CANCELLED"})) = 2
    /\ Cardinality(Audited) = 3
    /\ ret.reconciliationStatus = "DISCREPANCY"
    /\ ret.discrepancyAmount = Some(Money(5000))

(* C24: reconcile changes no ledger entry and no payout, and when the   *)
(* books do not balance it returns DISCREPANCY as its result: the only  *)
(* error it raises is that of a failed read.                            *)
C24_ReconcileReadOnly ==
    [][\A o \in Organizations, from \in 0..MaxClock, to \in 0..MaxClock,
         dbFails \in BOOLEAN :
          Reconcile(o, from, to, dbFails) =>
              /\ ledger' = ledger
              /\ payouts' = payouts
              /\ (~dbFails =>
                     /\ ret'.kind = "ok"
                     /\ ret'.reconciliationStatus \in {"BALANCED", "DISCREPANCY"}
                     /\ (ret'.totalCommissions # ret'.totalPaid + ret'.totalPending
                            => ret'.reconciliationStatus = "DISCREPANCY"))]_vars

(* A discrepancy was reported and the CANCELLED commission behind it is *)
(* still in the ledger with its amount.                                 *)
C24_Witness ==
    /\ ReconcileDone
    /\ ret.reconciliationStatus = "DISCREPANCY"
    /\ ret.discrepancyAmount = Some(Money(2000))
    /\ \E i \in AuditedIn({"CANCELLED"}) : ledger[i].amount = Money(2000)

-----------------------------------------------------------------------------
(* Properties of a repeated calculation, under SpecRepeat. *)

SameSplit(a, b) ==
    /\ a.kind = b.kind
    /\ a.kind = "ok" =>
          /\ a.platformFee = b.platformFee
          /\ a.creatorCommission = b.creatorCommission
          /\ a.paymentFee = b.paymentFee
          /\ a.sellerTake = b.sellerTake

(* The rules the resolver may return for the call at a clock reading. *)
Resolved(t) ==
    findApplicableCommissionRule(rules, call.item, call.campaignId, t)

=============================================================================
